---- MODULE Spec2Model ----
(***************************************************************************)
(* A model of the shift-scheduling core of "Shift GUI.py" (src/ADP7.py):   *)
(* PharmacistScheduler's eligibility engine, suitability scorer, greedy    *)
(* assignment pass (generate_monthly_schedule_shuffled and                 *)
(* generate_schedule_for_dates) and iterated optimizer (optimize_schedule  *)
(* and optimize_schedule_for_dates).                                       *)
(*                                                                         *)
(* Dates are day numbers 1..last_day of one scheduling horizon; the        *)
(* workbook (workers, shift types, limits, historical scores) is a fixed   *)
(* small roster; the pre-assignment sheet, the number of iterations, the   *)
(* entry point and every random.shuffle are chosen nondeterministically.   *)
(* Floating-point metrics are modelled exactly, as scaled integers.        *)
(***************************************************************************)
EXTENDS Integers, Sequences, FiniteSets, TLC

---------------------------------------------------------------------------
(* Bounds of the model *)

\* number of days of the horizon scheduled by the single-attempt runs
MonthDays == 3
\* number of days of the horizon scheduled by the multi-iteration runs
ShortMonthDays == 2
\* largest value of the optimizer's "iterations" argument
MaxIterations == 2
\* number of days handed to AssistantScheduler.optimize_schedule
AssistantDays == 3
\* largest value of the argument iterations of AssistantScheduler.optimize_schedule
AssistantMaxIterations == 2
\* max_attempts of AssistantScheduler.generate_schedule (250 in the source)
max_attempts == 2
\* number of calls of the eligibility engine followed in a run
MaxEngineCalls == 2

---------------------------------------------------------------------------
(* Program constants *)

W_CONSECUTIVE == 8
W_HOURS == 16
W_PREFERENCE == 4
W_WEEKEND_OFF == 6
W_JUNIOR_BONUS == 0
DEFAULT_MAX_HOURS == 250
STAFF_BUFFER == 3
NEUTRAL_PREFERENCE == 5
UNRANKED_PREFERENCE == 9
NUM_RANKS == 8
FRIDAY == 4
SATURDAY == 5
SUNDAY == 6
DAYS_PER_WEEK == 7
MINUTES_PER_HOUR == 60
HOURS_PER_DAY == 24
RANGE_TOLERANCE == 10
WEIGHT_PREFERENCE == 1
WEIGHT_NIGHT_VARIANCE == 800
WEIGHT_WEEKEND_OFF_VARIANCE == 1000
NEARBY_NIGHT_DAYS == 2
MULTIPLIER_FLOOR_TENTHS == 7
MULTIPLIER_SPAN_TENTHS == 3
MULTIPLIER_TENTHS == 10
MAX_DAYS == 6
MAX_SUGGESTIONS == 3
ASSISTANT_DEFAULT_MAX_HOURS == 250
ASSISTANT_STAFF_BUFFER == 3
ASSISTANT_MAX_DAYS == 2
MINUTES_PER_DAY == 1440
NEARBY_RANGE == 2
SIXTEEN_HOURS == 16
W_WEEKEND_PENALTY_FACTOR == 10
ASSISTANT_WEIGHT_NIGHT_VARIANCE == 75
ASSISTANT_WEIGHT_DEPARTMENT_VARIANCE == 200
\* stands for a text that is the text of no date (dates are day numbers from 1)
NOT_A_DATE == 0

NO_SHIFT == "NO SHIFT"
UNFILLED == "UNFILLED"
UNASSIGNED == "UNASSIGNED"
EmptyCells == {NO_SHIFT, UNASSIGNED, UNFILLED}
NaN == "nan"
\* the Shift Type written in Thai in the source ("Monday-Thursday")
MON_THU == "mon-thu"
None == "None"
AVAILABLE == "(Available)"
ON_HOLIDAY == "(On Holiday)"
NO_SUITABLE_CANDIDATE == "No suitable candidate found"
NO_UNFILLED_SHIFTS == "No unfilled shifts in the final schedule."
\* the message written in Thai in the source ("no qualified assistant found")
NO_ELIGIBLE_ASSISTANT == "no eligible assistant"

---------------------------------------------------------------------------
(* The workbook: the sheets read by read_data_from_excel.  A cell holding  *)
(* a cell is the sequence of its comma-separated parts, and an empty cell  *)
(* the empty sequence; the eight rank cells of a pharmacist are NaN when   *)
(* empty.                                                                  *)

PharmacistNames == {"A", "B", "C", "D", "E"}

\* weekday of day 1 of the horizon (Monday is 0)
FirstWeekday == SATURDAY

weekday(date) == (FirstWeekday + date - 1) % DAYS_PER_WEEK

\* self.holidays['specific_dates'], as day numbers of the horizon
specific_dates == {}

PharmacistsSheet ==
  [ A |-> [Skills |-> <<"ipd", "mixing", "mixing_expert">>, Holidays |-> {},
           MaxHours |-> <<>>, Ranks |-> <<"IPD100", "Mixing", NaN, NaN, NaN, NaN, NaN, NaN>>],
    B |-> [Skills |-> <<"ipd", "mixing", "mixing_expert", "junior">>, Holidays |-> {},
           MaxHours |-> <<>>, Ranks |-> <<NaN, NaN, NaN, NaN, NaN, NaN, NaN, NaN>>],
    C |-> [Skills |-> <<"ipd", "opd", "mixing", "mixing_expert", "junior">>, Holidays |-> {},
           MaxHours |-> <<25>>, Ranks |-> <<"OPD100", NaN, "Care", NaN, NaN, NaN, NaN, NaN>>],
    D |-> [Skills |-> <<"ipd", "mixing">>, Holidays |-> {},
           MaxHours |-> <<>>, Ranks |-> <<"Mixing", "IPD100", "OPD100", NaN, NaN, NaN, NaN, NaN>>],
    E |-> [Skills |-> <<"ipd", "opd">>, Holidays |-> {3},
           MaxHours |-> <<20>>, Ranks |-> <<"OPD100", "IPD100", NaN, NaN, NaN, NaN, NaN, NaN>>] ]

ShiftsSheet ==
  [ s \in {"I100-10", "C8-1", "C8-2", "Care-1", "O100-H", "O400F1-1"} |->
      CASE s = "I100-10"  -> [ShiftType |-> "night", StartTime |-> <<20, 0>>, EndTime |-> <<8, 0>>,
                              Hours |-> 12, RequiredSkills |-> <<"ipd">>, RestrictedNextShifts |-> <<>>]
        [] s = "C8-1"     -> [ShiftType |-> "weekday", StartTime |-> <<8, 0>>, EndTime |-> <<16, 0>>,
                              Hours |-> 8, RequiredSkills |-> <<"mixing">>, RestrictedNextShifts |-> <<>>]
        [] s = "C8-2"     -> [ShiftType |-> "weekday", StartTime |-> <<8, 30>>, EndTime |-> <<16, 30>>,
                              Hours |-> 8, RequiredSkills |-> <<"mixing">>, RestrictedNextShifts |-> <<>>]
        [] s = "Care-1"   -> [ShiftType |-> "weekday", StartTime |-> <<8, 0>>, EndTime |-> <<16, 0>>,
                              Hours |-> 8, RequiredSkills |-> <<"opd">>, RestrictedNextShifts |-> <<>>]
        [] s = "O100-H"   -> [ShiftType |-> "holiday", StartTime |-> <<12, 0>>, EndTime |-> <<21, 0>>,
                              Hours |-> 9, RequiredSkills |-> <<"opd">>,
                              RestrictedNextShifts |-> <<"I100-10", "O100-H", "Care-1">>]
        [] s = "O400F1-1" -> [ShiftType |-> MON_THU, StartTime |-> <<16, 0>>, EndTime |-> <<20, 0>>,
                              Hours |-> 4, RequiredSkills |-> <<>>, RestrictedNextShifts |-> <<>>] ]

\* the order of the rows of the Pharmacists sheet (the key order of self.pharmacists)
PharmacistRows == <<"A", "B", "C", "D", "E">>

\* the order of the rows of the Shifts sheet (the key order of self.shift_types)
ShiftCodes == <<"I100-10", "C8-1", "C8-2", "Care-1", "O100-H", "O400F1-1">>

\* ShiftLimits sheet: Pharmacist, ShiftCategory, MaxCount
ShiftLimitsSheet == {<<"B", "Night", 1>>, <<"A", "Mixing", 1>>}

\* HistoricalScores sheet: Pharmacist, Total Preference Score
HistoricalScoresSheet == {<<"A", 10>>, <<"B", 20>>}

\* self.night_shifts
night_shifts == {"I100-10", "I100-12N", "I400-12N", "I400-10", "O400ER-12N", "O400ER-10"}

---------------------------------------------------------------------------
(* Small helpers for sequences and sums *)

\* the values of a dictionary
Range0(f) == {f[k] : k \in DOMAIN f}

Contains(seq, x) == \E k \in 1..Len(seq) : seq[k] = x

RECURSIVE SumOver(_, _)
SumOver(f, S) ==
  IF S = {} THEN 0
  ELSE LET x == CHOOSE y \in S : TRUE IN f[x] + SumOver(f, S \ {x})

\* all orders a random.shuffle can leave the list of the elements of S in
RECURSIVE shuffles(_)
shuffles(S) ==
  IF S = {} THEN {<<>>}
  ELSE UNION {{<<x>> \o q : q \in shuffles(S \ {x})} : x \in S}

\* the orders a random.shuffle of the longer lists is followed through: the
\* list with at most MaxSwaps pairs of its elements exchanged
MaxSwaps == 1
swapped(list, a, b) == [k \in DOMAIN list |-> IF k = a THEN list[b] ELSE IF k = b THEN list[a] ELSE list[k]]
RECURSIVE swaps(_, _)
swaps(list, n) ==
  IF n = 0 THEN {list}
  ELSE LET fewer == swaps(list, n - 1)
       IN fewer \cup {swapped(q, a, b) : q \in fewer, a \in DOMAIN list, b \in DOMAIN list}
shuffled(list) == swaps(list, MaxSwaps)

\* Python's sorted() of a list of day numbers
RECURSIVE sorted(_)
sorted(S) ==
  IF S = {} THEN <<>>
  ELSE LET m == CHOOSE x \in S : \A y \in S : x <= y IN <<m>> \o sorted(S \ {m})

startswith(s, prefix) == Len(s) >= Len(prefix) /\ SubSeq(s, 1, Len(prefix)) = prefix

---------------------------------------------------------------------------
(* read_data_from_excel: the sheets as the dictionaries of the scheduler *)

\* str(cell).split(','): an empty cell reads as NaN, and str(NaN) is 'nan'
split_cell(cell) == IF cell = <<>> THEN <<NaN>> ELSE cell

\* [skill.strip() for skill in skills_raw if skill.strip()]
skills_clean(cell) == split_cell(cell)

\* max_hours: 250 when the cell is empty, else float(cell)
parse_max_hours(cell) == IF cell = <<>> THEN DEFAULT_MAX_HOURS ELSE cell[1]

\* preferences[rank_i]: None for an empty cell, else the department named
parse_rank(cell) == IF cell = NaN THEN None ELSE cell

\* the dictionary made of one row of the Pharmacists sheet
read_pharmacist(row) ==
  [ skills |-> skills_clean(row.Skills),
    holidays |-> row.Holidays,
    preferences |-> [r \in 1..NUM_RANKS |-> parse_rank(row.Ranks[r])],
    max_hours |-> parse_max_hours(row.MaxHours),
    has_preferences |-> \E r \in 1..NUM_RANKS : row.Ranks[r] # NaN ]

pharmacists_data == [ p \in PharmacistNames |-> read_pharmacist(PharmacistsSheet[p]) ]

shift_types ==
  [ s \in DOMAIN ShiftsSheet |->
      [ shift_type |-> ShiftsSheet[s].ShiftType,
        start_time |-> ShiftsSheet[s].StartTime,
        end_time |-> ShiftsSheet[s].EndTime,
        hours |-> ShiftsSheet[s].Hours,
        required_skills |-> split_cell(ShiftsSheet[s].RequiredSkills),
        restricted_next_shifts |->
          IF ShiftsSheet[s].RestrictedNextShifts = <<>> THEN <<>>
          ELSE ShiftsSheet[s].RestrictedNextShifts ] ]

ShiftCodeSet == DOMAIN shift_types

\* self.shift_limits.get(pharmacist, {}).get(category) is not None
has_shift_limit(pharmacist, category) ==
  \E row \in ShiftLimitsSheet : row[1] = pharmacist /\ row[2] = category

\* self.shift_limits[pharmacist][category]
shift_limit(pharmacist, category) ==
  (CHOOSE row \in ShiftLimitsSheet : row[1] = pharmacist /\ row[2] = category)[3]

\* load_historical_scores: the rows whose pharmacist is known
historical_scores ==
  [ p \in {row[1] : row \in {r \in HistoricalScoresSheet : r[1] \in PharmacistNames}} |->
      (CHOOSE row \in HistoricalScoresSheet : row[1] = p)[2] ]

\* min(...values()) and max(...values()) of a dictionary of scores
min_of(scores) == CHOOSE x \in Range0(scores) : \A y \in Range0(scores) : x <= y
max_of(scores) == CHOOSE x \in Range0(scores) : \A y \in Range0(scores) : x >= y

\* the two early returns of _calculate_preference_multipliers
all_multipliers_are_one(scores) == DOMAIN scores = {} \/ min_of(scores) = max_of(scores)

\* The multipliers are fractions; multiplier_den is their common denominator
\* (1 when every multiplier is 1.0, else 10 * (max_score - min_score)).
multiplier_den(scores) ==
  IF all_multipliers_are_one(scores) THEN 1
  ELSE MULTIPLIER_TENTHS * (max_of(scores) - min_of(scores))

\* _calculate_preference_multipliers on self.historical_scores, as
\* numerators over multiplier_den
_calculate_preference_multipliers(scores) ==
  [ p \in PharmacistNames |->
      IF all_multipliers_are_one(scores) THEN 1
      ELSE IF p \in DOMAIN scores
           THEN MULTIPLIER_FLOOR_TENTHS * (max_of(scores) - min_of(scores))
                + MULTIPLIER_SPAN_TENTHS * (scores[p] - min_of(scores))
           ELSE MULTIPLIER_FLOOR_TENTHS * (max_of(scores) - min_of(scores)) ]

min_score == min_of(historical_scores)
max_score == max_of(historical_scores)
MultiplierDen == multiplier_den(historical_scores)
preference_multipliers == _calculate_preference_multipliers(historical_scores)

---------------------------------------------------------------------------
(* Pure helpers of PharmacistScheduler *)

convert_time_to_minutes(time_input) == time_input[1] * MINUTES_PER_HOUR + time_input[2]

\* the comparison without the step that moves an end before its start to the
\* next day
check_time_overlap_same_day(start1, end1, start2, end2) ==
  LET start1_mins == convert_time_to_minutes(start1)
      end1_mins == convert_time_to_minutes(end1)
      start2_mins == convert_time_to_minutes(start2)
      end2_mins == convert_time_to_minutes(end2)
  IN start1_mins < end2_mins /\ end1_mins > start2_mins

\* the comparison that also counts two intervals that only touch
check_time_overlap_touching(start1, end1, start2, end2) ==
  LET start1_mins == convert_time_to_minutes(start1)
      end1_raw == convert_time_to_minutes(end1)
      start2_mins == convert_time_to_minutes(start2)
      end2_raw == convert_time_to_minutes(end2)
      end1_mins == IF end1_raw < start1_mins THEN end1_raw + HOURS_PER_DAY * MINUTES_PER_HOUR ELSE end1_raw
      end2_mins == IF end2_raw < start2_mins THEN end2_raw + HOURS_PER_DAY * MINUTES_PER_HOUR ELSE end2_raw
  IN start1_mins <= end2_mins /\ end1_mins >= start2_mins

check_time_overlap(start1, end1, start2, end2) ==
  LET start1_mins == convert_time_to_minutes(start1)
      end1_raw == convert_time_to_minutes(end1)
      start2_mins == convert_time_to_minutes(start2)
      end2_raw == convert_time_to_minutes(end2)
      end1_mins == IF end1_raw < start1_mins THEN end1_raw + HOURS_PER_DAY * MINUTES_PER_HOUR ELSE end1_raw
      end2_mins == IF end2_raw < start2_mins THEN end2_raw + HOURS_PER_DAY * MINUTES_PER_HOUR ELSE end2_raw
  IN start1_mins < end2_mins /\ end1_mins > start2_mins

is_holiday(date) == date \in specific_dates

is_night_shift(shift_type) == shift_type \in night_shifts

\* the branches of is_shift_available_on_date with the Sunday left out of
\* the holiday category
category_offered_without_sunday(shift_category, date_weekday, is_holiday_date) ==
  LET is_friday == date_weekday = FRIDAY
      is_saturday == date_weekday = SATURDAY
      is_sunday == date_weekday = SUNDAY
  IN CASE shift_category = "weekday" -> ~(is_holiday_date \/ is_saturday \/ is_sunday)
       [] shift_category = MON_THU -> ~(is_holiday_date \/ is_friday \/ is_saturday \/ is_sunday)
       [] shift_category = "saturday" -> is_saturday /\ ~is_holiday_date
       [] shift_category = "holiday" -> is_holiday_date \/ is_saturday
       [] shift_category = "night" -> TRUE
       [] OTHER -> FALSE

\* the branches of is_shift_available_on_date, on date.weekday() and
\* self.is_holiday(date)
category_offered(shift_category, date_weekday, is_holiday_date) ==
  LET is_friday == date_weekday = FRIDAY
      is_saturday == date_weekday = SATURDAY
      is_sunday == date_weekday = SUNDAY
  IN CASE shift_category = "weekday" -> ~(is_holiday_date \/ is_saturday \/ is_sunday)
       [] shift_category = MON_THU -> ~(is_holiday_date \/ is_friday \/ is_saturday \/ is_sunday)
       [] shift_category = "saturday" -> is_saturday /\ ~is_holiday_date
       [] shift_category = "holiday" -> is_holiday_date \/ is_saturday \/ is_sunday
       [] shift_category = "night" -> TRUE
       [] OTHER -> FALSE

\* is_shift_available_on_date, by the category of the shift
shift_category_available(shift_category, date) ==
  category_offered(shift_category, weekday(date), is_holiday(date))

is_shift_available_on_date(shift_type, date) ==
  shift_category_available(shift_types[shift_type].shift_type, date)

get_department_from_shift(shift_type) ==
  CASE startswith(shift_type, "I100") -> "IPD100"
    [] startswith(shift_type, "O100") -> "OPD100"
    [] startswith(shift_type, "Care") -> "Care"
    [] startswith(shift_type, "C8") -> "Mixing"
    [] startswith(shift_type, "I400") -> "IPD400"
    [] startswith(shift_type, "O400F1") -> "OPD400F1"
    [] startswith(shift_type, "O400F2") -> "OPD400F2"
    [] startswith(shift_type, "O400ER") -> "ER"
    [] startswith(shift_type, "ARI") -> "ARI"
    [] OTHER -> None

_get_shift_category(shift_type) ==
  IF is_night_shift(shift_type) THEN "Night"
  ELSE IF startswith(shift_type, "C8") THEN "Mixing"
  ELSE None

\* get_preference_score on the dictionary of the pharmacist
preference_score_of(pharmacist_info, shift_type) ==
  LET department == get_department_from_shift(shift_type)
      found == {rank \in 1..NUM_RANKS : pharmacist_info.preferences[rank] = department}
  IN IF ~pharmacist_info.has_preferences THEN NEUTRAL_PREFERENCE
     ELSE IF found # {} THEN CHOOSE rank \in found : \A other \in found : rank <= other
     ELSE UNRANKED_PREFERENCE

get_preference_score(pharmacist, shift_type) ==
  preference_score_of(pharmacists_data[pharmacist], shift_type)


---------------------------------------------------------------------------
(* The eligibility engine.  schedule_dict maps each date of the horizon to *)
(* a dictionary from shift code to a pharmacist name, NO SHIFT or UNFILLED;*)
(* self_pharmacists is the run-state part of self.pharmacists.             *)

\* the look at the date after, where the date before is meant
has_restricted_sequence_next_date(pharmacist, date, shift_type, schedule_dict) ==
  LET next_date == date + 1
  IN /\ next_date \in DOMAIN schedule_dict
     /\ \E next_shift \in DOMAIN schedule_dict[next_date] :
          /\ schedule_dict[next_date][next_shift] = pharmacist
          /\ Contains(shift_types[next_shift].restricted_next_shifts, shift_type)

has_restricted_sequence_optimized(pharmacist, date, shift_type, schedule_dict) ==
  LET previous_date == date - 1
  IN /\ previous_date \in DOMAIN schedule_dict
     /\ \E prev_shift \in DOMAIN schedule_dict[previous_date] :
          /\ schedule_dict[previous_date][prev_shift] = pharmacist
          /\ Contains(shift_types[prev_shift].restricted_next_shifts, shift_type)

has_overlapping_shift_optimized(pharmacist, date, new_shift_type, schedule_dict) ==
  /\ date \in DOMAIN schedule_dict
  /\ \E existing_shift \in DOMAIN schedule_dict[date] :
       /\ schedule_dict[date][existing_shift] = pharmacist
       /\ existing_shift # new_shift_type
       /\ check_time_overlap(shift_types[new_shift_type].start_time,
                             shift_types[new_shift_type].end_time,
                             shift_types[existing_shift].start_time,
                             shift_types[existing_shift].end_time)

\* the comparison of the shift codes, where their departments are meant
is_another_junior_on_same_shift(candidate_pharmacist, date, new_shift_type, schedule_dict) ==
  /\ Contains(pharmacists_data[candidate_pharmacist].skills, "junior")
  /\ get_department_from_shift(new_shift_type) # None
  /\ date \in DOMAIN schedule_dict
  /\ \E existing_shift \in DOMAIN schedule_dict[date] :
       LET assigned_pharmacist == schedule_dict[date][existing_shift]
       IN /\ assigned_pharmacist \notin EmptyCells
          /\ assigned_pharmacist # candidate_pharmacist
          /\ Contains(pharmacists_data[assigned_pharmacist].skills, "junior")
          /\ existing_shift = new_shift_type

is_another_junior_in_same_department(candidate_pharmacist, date, new_shift_type, schedule_dict) ==
  LET new_dept == get_department_from_shift(new_shift_type)
  IN /\ Contains(pharmacists_data[candidate_pharmacist].skills, "junior")
     /\ new_dept # None
     /\ date \in DOMAIN schedule_dict
     /\ \E existing_shift \in DOMAIN schedule_dict[date] :
          LET assigned_pharmacist == schedule_dict[date][existing_shift]
          IN /\ assigned_pharmacist \notin EmptyCells
             /\ assigned_pharmacist # candidate_pharmacist
             /\ Contains(pharmacists_data[assigned_pharmacist].skills, "junior")
             /\ get_department_from_shift(existing_shift) = new_dept

\* a variant of the check that looks at the earlier dates only
has_nearby_night_shift_backwards(pharmacist, date, schedule_dict) ==
  \E delta \in (-NEARBY_NIGHT_DAYS)..(-1) :
    /\ (date + delta) \in DOMAIN schedule_dict
    /\ \E shift \in DOMAIN schedule_dict[date + delta] :
         schedule_dict[date + delta][shift] = pharmacist /\ is_night_shift(shift)

has_nearby_night_shift_optimized(pharmacist, date, schedule_dict) ==
  \E delta \in ((-NEARBY_NIGHT_DAYS)..NEARBY_NIGHT_DAYS) \ {0} :
    /\ (date + delta) \in DOMAIN schedule_dict
    /\ \E shift \in DOMAIN schedule_dict[date + delta] :
         schedule_dict[date + delta][shift] = pharmacist /\ is_night_shift(shift)

\* a variant that asks for one half of the mixing workers to be experts
check_mixing_expert_ratio_of_one_half(schedule_dict, date, current_shift, current_pharm) ==
  LET mixing_cells == {s \in DOMAIN schedule_dict[date] :
                         startswith(s, "C8") /\ schedule_dict[date][s] \notin EmptyCells}
      adding == startswith(current_shift, "C8")
      is_expert(pharm) == pharm \in PharmacistNames
                          /\ Contains(pharmacists_data[pharm].skills, "mixing_expert")
      total_mixing == Cardinality(mixing_cells) + (IF adding THEN 1 ELSE 0)
      expert_count == Cardinality({s \in mixing_cells : is_expert(schedule_dict[date][s])})
                      + (IF adding /\ is_expert(current_pharm) THEN 1 ELSE 0)
  IN total_mixing = 0 \/ 2 * expert_count >= total_mixing

check_mixing_expert_ratio_optimized(schedule_dict, date, current_shift, current_pharm) ==
  LET mixing_cells == {s \in DOMAIN schedule_dict[date] :
                         startswith(s, "C8") /\ schedule_dict[date][s] \notin EmptyCells}
      adding == startswith(current_shift, "C8")
      is_expert(pharm) == pharm \in PharmacistNames
                          /\ Contains(pharmacists_data[pharm].skills, "mixing_expert")
      total_mixing == Cardinality(mixing_cells) + (IF adding THEN 1 ELSE 0)
      expert_count == Cardinality({s \in mixing_cells : is_expert(schedule_dict[date][s])})
                      + (IF adding /\ is_expert(current_pharm) THEN 1 ELSE 0)
  IN total_mixing = 0 \/ 3 * expert_count >= 2 * total_mixing

\* the checks written inline in the loop of _get_available_pharmacists_optimized

\* the holidays never looked at
is_on_holiday_never(pharmacist, date) == FALSE

is_on_holiday(pharmacist, date) == date \in pharmacists_data[pharmacist].holidays

pharmacists_on_night_yesterday(date, schedule_dict) ==
  LET previous_date == date - 1
  IN IF previous_date \in DOMAIN schedule_dict
     THEN {schedule_dict[previous_date][s] : s \in {x \in DOMAIN schedule_dict[previous_date] :
              schedule_dict[previous_date][x] \in PharmacistNames /\ is_night_shift(x)}}
     ELSE {}

has_required_skills(pharmacist, shift_type) ==
  LET p_skills == pharmacists_data[pharmacist].skills
      s_req_skills == shift_types[shift_type].required_skills
  IN \A k \in 1..Len(s_req_skills) : Contains(p_skills, s_req_skills[k])

\* the test with the hours of the shift alone, the hours held left out
exceeds_max_hours_shift_only(pharmacist, shift_type, current_hours_dict) ==
  shift_types[shift_type].hours > pharmacists_data[pharmacist].max_hours

exceeds_max_hours(pharmacist, shift_type, current_hours_dict) ==
  LET projected_hours == current_hours_dict[pharmacist] + shift_types[shift_type].hours
  IN projected_hours > pharmacists_data[pharmacist].max_hours

\* a variant that lets the count reach the cap and go one above it
reached_shift_limit_above_cap(pharmacist, shift_type, self_pharmacists) ==
  LET category == _get_shift_category(shift_type)
  IN /\ category # None
     /\ has_shift_limit(pharmacist, category)
     /\ self_pharmacists[pharmacist].category_counts[category] > shift_limit(pharmacist, category)

reached_shift_limit(pharmacist, shift_type, self_pharmacists) ==
  LET category == _get_shift_category(shift_type)
  IN /\ category # None
     /\ has_shift_limit(pharmacist, category)
     /\ self_pharmacists[pharmacist].category_counts[category] >= shift_limit(pharmacist, category)

\* the set left empty
pharmacists_working_tomorrow_empty(date, schedule_dict) == {}

pharmacists_working_tomorrow(date, schedule_dict) ==
  LET next_date == date + 1
  IN IF next_date \in DOMAIN schedule_dict
     THEN {schedule_dict[next_date][s] : s \in DOMAIN schedule_dict[next_date]} \cap PharmacistNames
     ELSE {}

\* the body of the loop of _get_available_pharmacists_optimized: TRUE when no
\* "continue" is taken for the pharmacist
passes_all_checks(pharmacist, date, shift_type, schedule_dict, current_hours_dict, self_pharmacists) ==
  /\ ~is_on_holiday(pharmacist, date)
  /\ ~has_overlapping_shift_optimized(pharmacist, date, shift_type, schedule_dict)
  /\ ~is_another_junior_in_same_department(pharmacist, date, shift_type, schedule_dict)
  /\ pharmacist \notin pharmacists_on_night_yesterday(date, schedule_dict)
  /\ has_required_skills(pharmacist, shift_type)
  /\ ~exceeds_max_hours(pharmacist, shift_type, current_hours_dict)
  /\ ~has_restricted_sequence_optimized(pharmacist, date, shift_type, schedule_dict)
  /\ ~reached_shift_limit(pharmacist, shift_type, self_pharmacists)
  /\ (is_night_shift(shift_type) =>
        /\ ~has_nearby_night_shift_optimized(pharmacist, date, schedule_dict)
        /\ pharmacist \notin pharmacists_working_tomorrow(date, schedule_dict))
  /\ (startswith(shift_type, "C8") =>
        check_mixing_expert_ratio_optimized(schedule_dict, date, shift_type, pharmacist))

\* the dictionary appended for one pharmacist who passed the checks;
\* preference_score is original_preference * multiplier, as a numerator over MultiplierDen
available_entry(pharmacist, shift_type, current_hours_dict, consecutive_days_dict, weekend_work_count, self_pharmacists) ==
  [ name |-> pharmacist,
    preference_score |-> get_preference_score(pharmacist, shift_type) * preference_multipliers[pharmacist],
    consecutive_days |-> consecutive_days_dict[pharmacist],
    night_count |-> self_pharmacists[pharmacist].night_shift_count,
    mixing_count |-> self_pharmacists[pharmacist].mixing_shift_count,
    current_hours |-> current_hours_dict[pharmacist],
    weekend_work_count |-> weekend_work_count[pharmacist],
    is_junior |-> Contains(pharmacists_data[pharmacist].skills, "junior") ]

\* the list built from the pharmacists the loop did not skip
available_entries(kept, shift_type, current_hours_dict, consecutive_days_dict, weekend_work_count, self_pharmacists) ==
  [ k \in 1..Len(kept) |->
      available_entry(kept[k], shift_type, current_hours_dict, consecutive_days_dict,
                      weekend_work_count, self_pharmacists) ]

_get_available_pharmacists_optimized(pharmacists_list, date, shift_type, schedule_dict, current_hours_dict, consecutive_days_dict, weekend_work_count, self_pharmacists) ==
  available_entries(SelectSeq(pharmacists_list,
                      LAMBDA p : passes_all_checks(p, date, shift_type, schedule_dict,
                                                   current_hours_dict, self_pharmacists)),
                    shift_type, current_hours_dict, consecutive_days_dict, weekend_work_count,
                    self_pharmacists)

---------------------------------------------------------------------------
(* The suitability scorer and the selection rule *)

\* the score of the source times MultiplierDen
_calculate_suitability_score(pharmacist_data, is_weekend_shift) ==
  LET consecutive_penalty == W_CONSECUTIVE * (pharmacist_data.consecutive_days * pharmacist_data.consecutive_days)
      hours_penalty == W_HOURS * pharmacist_data.current_hours
      preference_penalty_num == W_PREFERENCE * pharmacist_data.preference_score
      weekend_penalty == IF is_weekend_shift
                         THEN W_WEEKEND_OFF * (pharmacist_data.weekend_work_count * pharmacist_data.weekend_work_count)
                         ELSE 0
      junior_bonus == IF pharmacist_data.is_junior THEN -W_JUNIOR_BONUS ELSE 0
  IN (consecutive_penalty + hours_penalty + weekend_penalty + junior_bonus) * MultiplierDen
     + preference_penalty_num

\* comparison of the key tuples of min()
key_less(k1, k2) == k1[1] < k2[1] \/ (k1[1] = k2[1] /\ k1[2] < k2[2])

\* the scan of Python's min(): the position of the first key no other key is
\* below, looking from position k on with the best position so far
RECURSIVE min_index(_, _, _)
min_index(keys, k, best) ==
  IF k > Len(keys) THEN best
  ELSE min_index(keys, k + 1, IF key_less(keys[k], keys[best]) THEN k ELSE best)

\* the scan that keeps the last of the candidates with the least key
RECURSIVE min_index_of_last(_, _, _)
min_index_of_last(keys, k, best) ==
  IF k > Len(keys) THEN best
  ELSE min_index_of_last(keys, k + 1, IF key_less(keys[best], keys[k]) THEN best ELSE k)

\* a min() that resolves equal keys by the last position
py_min_of_last(candidates, keys) == candidates[min_index_of_last(keys, 2, 1)]

\* Python's min(candidates, key=...)
py_min(candidates, keys) == candidates[min_index(keys, 2, 1)]

_select_best_pharmacist(available_pharmacists, shift_type, date, is_day_before_problem_day) ==
  LET is_weekend_shift == weekday(date) >= SATURDAY
      score(x) == _calculate_suitability_score(x, is_weekend_shift)
      night_keys(candidates) ==
        [k \in 1..Len(candidates) |-> <<candidates[k].night_count, score(candidates[k])>>]
      mixing_keys(candidates) ==
        [k \in 1..Len(candidates) |-> <<candidates[k].mixing_count, score(candidates[k])>>]
      score_keys(candidates) ==
        [k \in 1..Len(candidates) |-> <<0, score(candidates[k])>>]
      problem_day == date + 1
      candidates_off_tomorrow ==
        SelectSeq(available_pharmacists, LAMBDA x : problem_day \in pharmacists_data[x.name].holidays)
  IN IF is_night_shift(shift_type) /\ is_day_before_problem_day /\ Len(candidates_off_tomorrow) > 0
     THEN py_min(candidates_off_tomorrow, night_keys(candidates_off_tomorrow))
     ELSE IF is_night_shift(shift_type)
     THEN py_min(available_pharmacists, night_keys(available_pharmacists))
     ELSE IF startswith(shift_type, "C8")
     THEN py_min(available_pharmacists, mixing_keys(available_pharmacists))
     ELSE py_min(available_pharmacists, score_keys(available_pharmacists))

_update_shift_counts(self_pharmacists, pharmacist, shift_type) ==
  LET old == self_pharmacists[pharmacist]
      category == _get_shift_category(shift_type)
  IN [self_pharmacists EXCEPT ![pharmacist] =
        [ night_shift_count |-> old.night_shift_count + (IF is_night_shift(shift_type) THEN 1 ELSE 0),
          mixing_shift_count |-> old.mixing_shift_count + (IF startswith(shift_type, "C8") THEN 1 ELSE 0),
          category_counts |->
            IF category # None /\ category \in DOMAIN old.category_counts
            THEN [old.category_counts EXCEPT ![category] = @ + 1]
            ELSE old.category_counts ]]


---------------------------------------------------------------------------
(* Schedule metrics and their comparison.  The variances are fractions:    *)
(* hour_imbalance_penalty is kept times HourDen, night_variance and        *)
(* weekend_off_variance times VarDen.                                      *)

NumPharmacists == Cardinality(PharmacistNames)
HourDen == NumPharmacists * (NumPharmacists - 1)
VarDen == NumPharmacists * NumPharmacists

calculate_total_hours(pharmacist, schedule) ==
  LET held == {c \in (DOMAIN schedule) \X ShiftCodeSet : schedule[c[1]][c[2]] = pharmacist}
  IN SumOver([c \in held |-> shift_types[c[2]].hours], held)

\* n * sum(x^2) - sum(x)^2: the variance of the values of f times n^2
scaled_variance(f) ==
  LET n == Cardinality(DOMAIN f)
      total == SumOver(f, DOMAIN f)
      squares == SumOver([k \in DOMAIN f |-> f[k] * f[k]], DOMAIN f)
  IN n * squares - total * total

\* stdev ** 2 + range_penalty, times HourDen
_get_hour_imbalance_penalty(hours_dict) ==
  LET values == Range0(hours_dict)
      hi == CHOOSE x \in values : \A y \in values : x >= y
      lo == CHOOSE x \in values : \A y \in values : x <= y
      hour_range == hi - lo
      range_penalty == IF hour_range > RANGE_TOLERANCE
                       THEN (hour_range - RANGE_TOLERANCE) * (hour_range - RANGE_TOLERANCE)
                       ELSE 0
  IN IF Cardinality(DOMAIN hours_dict) < 2 THEN 0
     ELSE scaled_variance(hours_dict) + range_penalty * HourDen

calculate_weekend_off_variance(schedule) ==
  LET weekend_off_counts ==
        [ p \in PharmacistNames |->
            Cardinality({d \in DOMAIN schedule :
                           /\ weekday(d) >= SATURDAY
                           /\ \A s \in ShiftCodeSet : schedule[d][s] # p}) ]
  IN IF NumPharmacists > 1 THEN scaled_variance(weekend_off_counts) ELSE 0

calculate_preference_penalty(pharmacist, schedule) ==
  LET held == {c \in (DOMAIN schedule) \X ShiftCodeSet : schedule[c[1]][c[2]] = pharmacist}
  IN SumOver([c \in held |-> get_preference_score(pharmacist, c[2])], held)

\* calculate_schedule_metrics and calculate_metrics_for_schedule (the same
\* metrics; unfilled_problem_shifts is added by the optimizer)
calculate_schedule_metrics(schedule, self_pharmacists, unfilled) ==
  [ unfilled_problem_shifts |-> unfilled,
    hour_imbalance_penalty |->
      _get_hour_imbalance_penalty([p \in PharmacistNames |-> calculate_total_hours(p, schedule)]),
    night_variance |-> scaled_variance([p \in PharmacistNames |-> self_pharmacists[p].night_shift_count]),
    preference_score |->
      SumOver([p \in PharmacistNames |-> calculate_preference_penalty(p, schedule)], PharmacistNames),
    weekend_off_variance |-> calculate_weekend_off_variance(schedule) ]

\* the dict weights of Priority 3
weights ==
  [ preference_score |-> WEIGHT_PREFERENCE,
    night_variance |-> WEIGHT_NIGHT_VARIANCE,
    weekend_off_variance |-> WEIGHT_WEEKEND_OFF_VARIANCE ]

\* the weighted sum of Priority 3, times VarDen
combined_score(metrics) ==
  WEIGHT_PREFERENCE * metrics.preference_score * VarDen
  + WEIGHT_NIGHT_VARIANCE * metrics.night_variance
  + WEIGHT_WEEKEND_OFF_VARIANCE * metrics.weekend_off_variance

\* Priority 1, the unfilled shifts, left out
is_schedule_better_from_hours(current_metrics, best_metrics) ==
  IF current_metrics.hour_imbalance_penalty < best_metrics.hour_imbalance_penalty THEN TRUE
  ELSE IF current_metrics.hour_imbalance_penalty > best_metrics.hour_imbalance_penalty THEN FALSE
  ELSE combined_score(current_metrics) < combined_score(best_metrics)

\* Priority 2, the hour imbalance, left out
is_schedule_better_by_sum(current_metrics, best_metrics) ==
  IF current_metrics.unfilled_problem_shifts < best_metrics.unfilled_problem_shifts THEN TRUE
  ELSE IF current_metrics.unfilled_problem_shifts > best_metrics.unfilled_problem_shifts THEN FALSE
  ELSE combined_score(current_metrics) < combined_score(best_metrics)

is_schedule_better(current_metrics, best_metrics) ==
  IF current_metrics.unfilled_problem_shifts < best_metrics.unfilled_problem_shifts THEN TRUE
  ELSE IF current_metrics.unfilled_problem_shifts > best_metrics.unfilled_problem_shifts THEN FALSE
  ELSE IF current_metrics.hour_imbalance_penalty < best_metrics.hour_imbalance_penalty THEN TRUE
  ELSE IF current_metrics.hour_imbalance_penalty > best_metrics.hour_imbalance_penalty THEN FALSE
  ELSE combined_score(current_metrics) < combined_score(best_metrics)

---------------------------------------------------------------------------
(* The negotiator: create_negotiation_summary *)

RECURSIVE count_consecutive_shifts(_, _, _, _)
count_consecutive_shifts(pharmacist, date, schedule, max_days) ==
  LET current_date == date - 1
  IN IF max_days = 0 THEN 0
     ELSE IF current_date \in DOMAIN schedule /\ pharmacist \in Range0(schedule[current_date])
     THEN 1 + count_consecutive_shifts(pharmacist, current_date, schedule, max_days - 1)
     ELSE 0

get_pharmacist_shifts(pharmacist, date, current_schedule) ==
  IF date \in DOMAIN current_schedule
  THEN SelectSeq(ShiftCodes, LAMBDA shift_type : current_schedule[date][shift_type] = pharmacist)
  ELSE <<>>

\* a list with the element at position m taken out
without(list, m) == [k \in 1..(Len(list) - 1) |-> list[IF k < m THEN k ELSE k + 1]]

\* Python's sorted(candidates, key=...): stable, by the key tuples; m is the
\* position of the first candidate with the least key
RECURSIVE py_sorted(_, _)
RECURSIVE py_sorted_from(_, _, _)
py_sorted_from(candidates, keys, m) ==
  <<candidates[m]>> \o py_sorted(without(candidates, m), without(keys, m))

py_sorted(candidates, keys) ==
  IF Len(candidates) = 0 THEN <<>> ELSE py_sorted_from(candidates, keys, min_index(keys, 2, 1))

\* the list unfilled_shifts: the UNFILLED cells by date, then by column
RECURSIVE unfilled_shifts(_, _)
unfilled_shifts(schedule, dates) ==
  IF Len(dates) = 0 THEN <<>>
  ELSE LET date == dates[1]
           columns == SelectSeq(ShiftCodes, LAMBDA shift_type : schedule[date][shift_type] = UNFILLED)
       IN [k \in 1..Len(columns) |-> <<date, columns[k]>>]
          \o unfilled_shifts(schedule, Tail(dates))

\* the pharmacist_data the negotiator scores a candidate with
negotiation_pharmacist_data(p_name, schedule, date, shift_type) ==
  [ name |-> p_name,
    preference_score |-> get_preference_score(p_name, shift_type) * MultiplierDen,
    consecutive_days |-> count_consecutive_shifts(p_name, date, schedule, MAX_DAYS),
    current_hours |-> calculate_total_hours(p_name, schedule),
    weekend_work_count |-> 0,
    is_junior |-> FALSE ]

\* the entry of all_candidates for one pharmacist; the score is the score
\* of the source times MultiplierDen
negotiation_candidate(p_name, schedule, date, shift_type) ==
  [ name |-> p_name,
    is_on_holiday |-> date \in pharmacists_data[p_name].holidays,
    score |-> _calculate_suitability_score(negotiation_pharmacist_data(p_name, schedule, date, shift_type),
                                           weekday(date) >= SATURDAY) ]

\* the pharmacists the loop over self.pharmacists does not skip
negotiation_kept(schedule, date, shift_type) ==
  SelectSeq(PharmacistRows,
    LAMBDA p_name :
      /\ \A k \in 1..Len(shift_types[shift_type].required_skills) :
           Contains(pharmacists_data[p_name].skills, shift_types[shift_type].required_skills[k])
      /\ ~(Len(get_pharmacist_shifts(p_name, date, schedule)) > 0))

all_candidates_of(kept, schedule, date, shift_type) ==
  [ k \in 1..Len(kept) |-> negotiation_candidate(kept[k], schedule, date, shift_type) ]

\* the key of the sort: (is_on_holiday, score)
candidate_keys(all_candidates) ==
  [ k \in 1..Len(all_candidates) |->
      << IF all_candidates[k].is_on_holiday THEN 1 ELSE 0, all_candidates[k].score >> ]

sorted_all(all_candidates) == py_sorted(all_candidates, candidate_keys(all_candidates))

\* sorted_candidates for one unfilled shift
sorted_candidates(schedule, date, shift_type) ==
  sorted_all(all_candidates_of(negotiation_kept(schedule, date, shift_type), schedule, date, shift_type))

\* sorted_candidates[:MAX_SUGGESTIONS]
top_suggestions(candidates) ==
  SubSeq(candidates, 1, IF Len(candidates) < MAX_SUGGESTIONS THEN Len(candidates) ELSE MAX_SUGGESTIONS)

\* a suggestion line is its number, name and status
suggestion_lines(top) ==
  [ k \in 1..Len(top) |->
      << k, top[k].name, IF top[k].is_on_holiday THEN ON_HOLIDAY ELSE AVAILABLE >> ]

message_if_empty(suggestions_text) ==
  IF Len(suggestions_text) > 0 THEN suggestions_text ELSE << <<NO_SUITABLE_CANDIDATE>> >>

\* final_text without the message for an empty list of candidates
final_text_without_message(schedule, date, shift_type) ==
  suggestion_lines(top_suggestions(sorted_candidates(schedule, date, shift_type)))

\* final_text for one unfilled shift, as its lines
final_text(schedule, date, shift_type) ==
  message_if_empty(suggestion_lines(top_suggestions(sorted_candidates(schedule, date, shift_type))))

summary_row(schedule, cell) == << cell[1], cell[2], final_text(schedule, cell[1], cell[2]) >>

summary_rows(schedule, cells) ==
  IF Len(cells) = 0 THEN << <<NO_UNFILLED_SHIFTS>> >>
  ELSE [ k \in 1..Len(cells) |-> summary_row(schedule, cells[k]) ]

\* the rows written to the sheet "Negotiation Suggestions", the header aside
create_negotiation_summary(schedule) ==
  summary_rows(schedule, unfilled_shifts(schedule, sorted(DOMAIN schedule)))

---------------------------------------------------------------------------
(* AssistantScheduler: the workbook and the dictionaries read from it *)

AssistantNames == {"P", "Q", "R", "S"}

\* the order of the rows of the Assistants sheet (the key order of self.assistants)
AssistantRows == <<"P", "Q", "R", "S">>

AssistantsSheet ==
  [ P |-> [Skills |-> <<"ipd", "opd", "er">>, Holidays |-> {1}, MaxHours |-> <<>>,
           PrevHours |-> <<8>>, PrevNightShifts |-> <<>>],
    Q |-> [Skills |-> <<"ipd", "opd">>, Holidays |-> {}, MaxHours |-> <<>>,
           PrevHours |-> <<>>, PrevNightShifts |-> <<>>],
    R |-> [Skills |-> <<"ipd", "opd">>, Holidays |-> {}, MaxHours |-> <<16>>,
           PrevHours |-> <<>>, PrevNightShifts |-> <<>>],
    S |-> [Skills |-> <<"ipd">>, Holidays |-> {3}, MaxHours |-> <<>>,
           PrevHours |-> <<>>, PrevNightShifts |-> <<>>] ]

\* the order of the rows of the Shifts sheet (the key order of self.shift_types)
AssistantShiftCodes == <<"I100-16", "C8-1", "O100-2", "O100-S">>

AssistantShiftCodeSet == {AssistantShiftCodes[k] : k \in 1..Len(AssistantShiftCodes)}

AssistantShiftsSheet ==
  [ s \in AssistantShiftCodeSet |->
      CASE s = "I100-16" -> [ShiftType |-> "night", StartTime |-> <<16, 0>>, EndTime |-> <<8, 0>>,
                             Hours |-> 16, RequiredSkills |-> <<"ipd">>]
        [] s = "C8-1"    -> [ShiftType |-> "weekday", StartTime |-> <<8, 0>>, EndTime |-> <<16, 0>>,
                             Hours |-> 8, RequiredSkills |-> <<>>]
        [] s = "O100-2"  -> [ShiftType |-> "weekday", StartTime |-> <<12, 0>>, EndTime |-> <<20, 0>>,
                             Hours |-> 8, RequiredSkills |-> <<"er">>]
        [] s = "O100-S"  -> [ShiftType |-> "saturday", StartTime |-> <<8, 0>>, EndTime |-> <<12, 0>>,
                             Hours |-> 4, RequiredSkills |-> <<"er">>] ]

\* Departments sheet: Department, Shift Codes, in row order
DepartmentsSheet == << <<"IPD", <<"I100-16">> >>, <<"OPD", <<"O100-2", "O100-S">> >> >>

DepartmentNames == {DepartmentsSheet[k][1] : k \in 1..Len(DepartmentsSheet)}

\* self.night_shifts of AssistantScheduler
assistant_night_shifts == {"I100-16", "I100-12N", "I400-12N", "I400-16", "O400ER-12N", "O400ER-16"}

\* self.holidays['specific_dates'] of AssistantScheduler, as day numbers of the horizon
assistant_specific_dates == {}

\* the dates handed to AssistantScheduler.optimize_schedule
AssistantDates == 1..AssistantDays

\* self.assistants: skills, holidays and max_hours
assistants_data ==
  [ name \in AssistantNames |->
      [ skills |-> split_cell(AssistantsSheet[name].Skills),
        holidays |-> AssistantsSheet[name].Holidays,
        max_hours |-> IF AssistantsSheet[name].MaxHours = <<>> THEN ASSISTANT_DEFAULT_MAX_HOURS
                      ELSE AssistantsSheet[name].MaxHours[1] ] ]

\* self.shift_types of AssistantScheduler
assistant_shift_types ==
  [ s \in AssistantShiftCodeSet |->
      [ shift_type |-> AssistantShiftsSheet[s].ShiftType,
        start_time |-> AssistantShiftsSheet[s].StartTime,
        end_time |-> AssistantShiftsSheet[s].EndTime,
        hours |-> AssistantShiftsSheet[s].Hours,
        required_skills |-> split_cell(AssistantShiftsSheet[s].RequiredSkills) ] ]

---------------------------------------------------------------------------
(* AssistantScheduler: helpers and the availability check *)

assistant_is_holiday(date) == date \in assistant_specific_dates

assistant_is_night_shift(shift_type) == shift_type \in assistant_night_shifts

\* the branches of AssistantScheduler.is_shift_available_on_date
assistant_category_offered(stype, date_weekday, h) ==
  LET fr == date_weekday = FRIDAY
      sa == date_weekday = SATURDAY
      su == date_weekday = SUNDAY
  IN CASE stype = "weekday" -> ~(h \/ sa \/ su)
       [] stype = MON_THU -> ~(h \/ fr \/ sa \/ su)
       [] stype = "saturday" -> sa /\ ~h
       [] stype = "holiday" -> h \/ sa \/ su
       [] OTHER -> TRUE

assistant_is_shift_available_on_date(shift_type, date) ==
  assistant_category_offered(assistant_shift_types[shift_type].shift_type, weekday(date),
                             assistant_is_holiday(date))

\* the first department whose list of shift codes has the shift, or None
RECURSIVE department_from(_, _)
department_from(shift_type, k) ==
  IF k > Len(DepartmentsSheet) THEN None
  ELSE IF Contains(DepartmentsSheet[k][2], shift_type) THEN DepartmentsSheet[k][1]
  ELSE department_from(shift_type, k + 1)

assistant_get_department_from_shift(shift_type) == department_from(shift_type, 1)

get_assistant_shifts(assistant, date, schedule) ==
  IF date \in DOMAIN schedule
  THEN SelectSeq(AssistantShiftCodes, LAMBDA st : schedule[date][st] = assistant)
  ELSE <<>>

assistant_check_time_overlap(s1, e1, s2, e2) ==
  LET s1m == convert_time_to_minutes(s1)
      e1raw == convert_time_to_minutes(e1)
      s2m == convert_time_to_minutes(s2)
      e2raw == convert_time_to_minutes(e2)
      e1m == IF e1raw < s1m THEN e1raw + MINUTES_PER_DAY ELSE e1raw
      e2m == IF e2raw < s2m THEN e2raw + MINUTES_PER_DAY ELSE e2raw
  IN s1m < e2m /\ e1m > s2m

has_overlapping_shift(assistant, date, shift_type, schedule) ==
  /\ date \in DOMAIN schedule
  /\ \E eshift \in AssistantShiftCodeSet :
       /\ schedule[date][eshift] = assistant
       /\ eshift # shift_type
       /\ assistant_check_time_overlap(assistant_shift_types[shift_type].start_time,
                                       assistant_shift_types[shift_type].end_time,
                                       assistant_shift_types[eshift].start_time,
                                       assistant_shift_types[eshift].end_time)

\* a night shift of the assistant on a date of the schedule
holds_night_on(assistant, c_date, schedule) ==
  /\ c_date \in DOMAIN schedule
  /\ \E s \in AssistantShiftCodeSet : schedule[c_date][s] = assistant /\ assistant_is_night_shift(s)

has_nearby_night_shift(assistant, date, schedule) ==
  \E d \in (-NEARBY_RANGE)..NEARBY_RANGE :
    d # 0 /\ holds_night_on(assistant, date + d, schedule)

\* the required skills without the empty and the 'nan' entries
required_of(shift_type) ==
  SelectSeq(assistant_shift_types[shift_type].required_skills, LAMBDA s : s # NaN /\ s # "")

check_assistant_availability(assistant, date, shift_type, schedule) ==
  LET required == required_of(shift_type)
      prev_day == date - 1
      next_day == date + 1
  IN /\ date \notin assistants_data[assistant].holidays
     /\ ~(Len(required) > 0
          /\ ~(\A k \in 1..Len(required) : Contains(assistants_data[assistant].skills, required[k])))
     /\ ~has_overlapping_shift(assistant, date, shift_type, schedule)
     /\ ~(prev_day \in DOMAIN schedule /\ holds_night_on(assistant, prev_day, schedule))
     /\ assistant_is_night_shift(shift_type) =>
          /\ ~(next_day \in DOMAIN schedule /\ Len(get_assistant_shifts(assistant, next_day, schedule)) > 0)
          /\ ~has_nearby_night_shift(assistant, date, schedule)

\* count_consecutive_shifts of AssistantScheduler (max_days = 2), from its d-th day back
RECURSIVE assistant_count_consecutive_shifts(_, _, _, _)
assistant_count_consecutive_shifts(assistant, date, schedule, d) ==
  IF d > ASSISTANT_MAX_DAYS THEN 0
  ELSE IF (date - d) \in DOMAIN schedule /\ assistant \in Range0(schedule[date - d])
  THEN 1 + assistant_count_consecutive_shifts(assistant, date, schedule, d + 1)
  ELSE 0

\* the cells of the schedule the assistant holds
assistant_cells(schedule, assistant) ==
  {c \in (DOMAIN schedule) \X AssistantShiftCodeSet : schedule[c[1]][c[2]] = assistant}

\* int(prev_count_val) if pd.notna(prev_count_val) else 0
prev_count(cell) == IF cell = <<>> THEN 0 ELSE cell[1]

\* initial_hours and initial_night_count of self.assistants: the Prev_Hours
\* and Prev_Night_Shifts cells of the sheet (it has no Prev_ column of a
\* department or of a shift code: those initial counts are zero)
initial_hours(name) == prev_count(AssistantsSheet[name].PrevHours)
initial_night_count(name) == prev_count(AssistantsSheet[name].PrevNightShifts)

\* an empty DataFrame: _recalculate_counts(pd.DataFrame())
EmptyDataFrame == <<>>

\* _recalculate_counts: the counters of self.assistants, from the initial
\* values and the cells of the schedule
_recalculate_counts(schedule) ==
  [ name \in AssistantNames |->
      LET held == assistant_cells(schedule, name)
      IN [ total_hours |-> initial_hours(name)
                           + SumOver([c \in held |-> assistant_shift_types[c[2]].hours], held),
           night_shift_count |-> initial_night_count(name)
                                 + Cardinality({c \in held : assistant_is_night_shift(c[2])}),
           department_counts |->
             [dept \in DepartmentNames |->
                Cardinality({c \in held : assistant_get_department_from_shift(c[2]) = dept})],
           specific_shift_counts |->
             [sc \in AssistantShiftCodeSet |-> Cardinality({c \in held : c[2] = sc})],
           weekend_work_count |-> Cardinality({c \in held : weekday(c[1]) >= SATURDAY}) ] ]

\* the data packet of one assistant, from the counters recalculated
assistant_entry(assistant, date, schedule, counts) ==
  [ name |-> assistant,
    consecutive_days |-> assistant_count_consecutive_shifts(assistant, date, schedule, 1),
    night_count |-> counts[assistant].night_shift_count,
    current_hours |-> counts[assistant].total_hours,
    department_counts |-> counts[assistant].department_counts,
    specific_shift_counts |-> counts[assistant].specific_shift_counts,
    weekend_work_count |-> counts[assistant].weekend_work_count ]

assistant_entries(kept, date, schedule, counts) ==
  [ k \in 1..Len(kept) |-> assistant_entry(kept[k], date, schedule, counts) ]

\* the assistants the loop does not skip: available and under max_hours
assistants_kept(assistants, date, shift_type, schedule, counts) ==
  SelectSeq(assistants,
    LAMBDA assistant :
      /\ check_assistant_availability(assistant, date, shift_type, schedule)
      /\ counts[assistant].total_hours + assistant_shift_types[shift_type].hours
           <= assistants_data[assistant].max_hours)

available_assistants_with(assistants, date, shift_type, schedule, counts) ==
  assistant_entries(assistants_kept(assistants, date, shift_type, schedule, counts), date, schedule, counts)

\* the data packets of the assistants that may take the cell, in the order
\* of the list given
_get_available_assistants(assistants, date, shift_type, schedule) ==
  available_assistants_with(assistants, date, shift_type, schedule, _recalculate_counts(schedule))

\* the order of Python's tuples
RECURSIVE tuple_less(_, _)
tuple_less(k1, k2) ==
  IF Len(k1) = 0 \/ Len(k2) = 0 THEN Len(k1) < Len(k2)
  ELSE IF k1[1] # k2[1] THEN k1[1] < k2[1]
  ELSE tuple_less(Tail(k1), Tail(k2))

\* the index of the first minimal key
RECURSIVE first_min(_, _, _)
first_min(keys, k, best) ==
  IF k > Len(keys) THEN best
  ELSE first_min(keys, k + 1, IF tuple_less(keys[k], keys[best]) THEN k ELSE best)

\* date.strftime('%Y-m-d') of the source: the year, then the letters m and
\* d; it is the text of no date
strftime_Y_m_d(date) == NOT_A_DATE

_select_best_assistant(available_assistants, shift_type, date, problematic_dates, schedule) ==
  LET counts == _recalculate_counts(schedule)
      all_current_hours == {counts[name].total_hours : name \in AssistantNames}
      min_hours_among_all == CHOOSE x \in all_current_hours : \A y \in all_current_hours : x <= y
      shift_hours == assistant_shift_types[shift_type].hours
      is_weekend_shift == weekday(date) >= SATURDAY
      violates_16h_rule(a) ==
        IF (a.current_hours + shift_hours - min_hours_among_all) > SIXTEEN_HOURS THEN 1 ELSE 0
      weekend_penalty(a) ==
        IF is_weekend_shift THEN a.weekend_work_count * a.weekend_work_count * W_WEEKEND_PENALTY_FACTOR
        ELSE 0
      is_day_before_problem_day == (date + 1) \in problematic_dates
      problem_day_str == strftime_Y_m_d(date + 1)
      candidates_off_tomorrow ==
        SelectSeq(available_assistants, LAMBDA a : problem_day_str \in assistants_data[a.name].holidays)
      night_key(a) == <<violates_16h_rule(a), weekend_penalty(a), a.night_count, a.current_hours,
                        a.consecutive_days>>
      department == assistant_get_department_from_shift(shift_type)
      department_key(a) == <<violates_16h_rule(a), weekend_penalty(a), a.specific_shift_counts[shift_type],
                             a.department_counts[department], a.current_hours, a.night_count,
                             a.consecutive_days>>
      other_key(a) == <<violates_16h_rule(a), weekend_penalty(a), a.specific_shift_counts[shift_type],
                        a.current_hours, a.night_count, a.consecutive_days>>
      off_keys == [k \in 1..Len(candidates_off_tomorrow) |-> night_key(candidates_off_tomorrow[k])]
      night_keys == [k \in 1..Len(available_assistants) |-> night_key(available_assistants[k])]
      department_keys == [k \in 1..Len(available_assistants) |-> department_key(available_assistants[k])]
      other_keys == [k \in 1..Len(available_assistants) |-> other_key(available_assistants[k])]
  IN IF assistant_is_night_shift(shift_type) /\ is_day_before_problem_day
        /\ Len(candidates_off_tomorrow) > 0
     THEN candidates_off_tomorrow[first_min(off_keys, 2, 1)]
     ELSE IF assistant_is_night_shift(shift_type)
     THEN available_assistants[first_min(night_keys, 2, 1)]
     ELSE IF department # None
     THEN available_assistants[first_min(department_keys, 2, 1)]
     ELSE available_assistants[first_min(other_keys, 2, 1)]

---------------------------------------------------------------------------
(* AssistantScheduler: metrics and their comparison.  hour_diff is a sample *)
(* standard deviation, compared by its square times n * (n - 1); the two    *)
(* variances are kept times the squares of their numbers of values.        *)

NumAssistants == Cardinality(AssistantNames)
NumDepartments == Cardinality(DepartmentNames)

assistant_calculate_schedule_metrics(schedule) ==
  LET counts == _recalculate_counts(schedule)
      hours == [p \in AssistantNames |-> counts[p].total_hours]
      night_counts_list == [p \in AssistantNames |-> counts[p].night_shift_count]
  IN [ hour_diff |-> scaled_variance(hours),
       night_variance |-> scaled_variance(night_counts_list),
       department_variance |->
         SumOver([p \in AssistantNames |-> scaled_variance(counts[p].department_counts)], AssistantNames) ]

\* best_metrics before any schedule: every metric is float('inf')
assistant_inf_metrics == [hour_diff |-> "inf", night_variance |-> "inf", department_variance |-> "inf"]

\* the weighted sum of the night and department variances, times
\* NumAssistants ** 2 * NumDepartments ** 2
assistant_combined_score(metrics) ==
  ASSISTANT_WEIGHT_NIGHT_VARIANCE * metrics.night_variance * NumDepartments * NumDepartments
  + ASSISTANT_WEIGHT_DEPARTMENT_VARIANCE * metrics.department_variance * NumAssistants * NumAssistants

assistant_is_schedule_better(current_metrics, best_metrics_) ==
  IF current_metrics.hour_diff < best_metrics_.hour_diff THEN TRUE
  ELSE IF current_metrics.hour_diff > best_metrics_.hour_diff THEN FALSE
  ELSE assistant_combined_score(current_metrics) < assistant_combined_score(best_metrics_)

---------------------------------------------------------------------------
(* The inputs of a run *)

\* the PreAssignments sheet, as the (pharmacist, date, shift) triples in the
\* order the loop over self.pre_assignments applies them
PreAssignmentInputs ==
  { <<>>,
    << <<"A", 1, "I100-10">>, <<"C", 2, "I100-10">> >>,
    << <<"A", 2, "I100-10">>, <<"D", 1, "O100-H">>, <<"E", 1, "I100-10">>, <<"E", 1, "O100-H">>, <<"E", 2, "O100-H">>,
       <<"E", 9, "O100-H">>, <<"E", 1, "X9">>, <<"Z", 1, "I100-10">> >> }

\* PreAssignments sheets that use up a cap of the ShiftLimits sheet
CappedPreAssignmentInputs ==
  { <<>>,
    << <<"A", 1, "C8-1">> >> }

\* the entry points: optimize_schedule and optimize_schedule_for_dates
Modes == {"monthly", "for_dates"}

---------------------------------------------------------------------------
(* State *)

VARIABLES
  mode,                          \* which optimizer was called
  iterations,                    \* its iterations argument
  last_day,                      \* the last day of the horizon
  pre_assignments,               \* self.pre_assignments
  injected,                      \* the shuffled_shifts / shuffled_pharmacists arguments of an attempt
  preference_call,               \* a call of get_preference_score: the row read, the shift and what it returned
  multipliers_call,              \* a call of _calculate_preference_multipliers: the scores and the multipliers set
  availability_call,             \* a call of is_shift_available_on_date: the scheduler, the category, the date and the answer
  overlap_call,                  \* a call of check_time_overlap: the scheduler, the two shifts and the answer
  comparison_call,               \* a call of is_schedule_better: the two metrics and the answer
  engine_calls,                  \* the calls of the eligibility engine followed: how many, and the last answer
  stop_generation,               \* st.session_state.stop_generation
  first_run,                     \* what an earlier run on the same inputs returned
  ws_negotiate,                  \* the rows of the sheet "Negotiation Suggestions"
  pc,                            \* "start", "loop", "pre", "date", "shift", "returned", "done"
  i,                             \* iterations of the optimizer loop completed
  problem_days,                  \* self.problem_days
  best_schedule,
  best_metrics,
  best_unfilled_info,
  schedule_dict,                 \* the attempt's schedule (current_schedule once returned)
  unfilled_info,
  pharmacists,                   \* run-state counters of self.pharmacists
  pharmacist_hours,
  pharmacist_consecutive_days,
  pharmacist_weekend_work_count,
  shuffled_pharmacists,
  standard_shift_order,
  problem_day_shift_order,
  processing_order_dates,
  date_idx,                      \* position in processing_order_dates
  shift_idx                      \* position in shifts_to_process

inputs == <<mode, iterations, last_day, pre_assignments, injected, preference_call, multipliers_call,
            availability_call, overlap_call, comparison_call, engine_calls>>
environment == <<stop_generation, first_run, ws_negotiate>>
optimizer_vars == <<pc, i, problem_days, best_schedule, best_metrics, best_unfilled_info>>
attempt_vars == <<schedule_dict, unfilled_info, pharmacists, pharmacist_hours,
                  pharmacist_consecutive_days, pharmacist_weekend_work_count,
                  shuffled_pharmacists, standard_shift_order, problem_day_shift_order,
                  processing_order_dates, date_idx, shift_idx>>
pharmacist_vars == <<inputs, environment, optimizer_vars, attempt_vars>>

\* AssistantScheduler: the state of a run of its optimize_schedule
VARIABLES
  asst_pre_assignments,          \* the rows of the PreAssignments sheet, grouped by name and date
  asst_iterations,               \* the argument iterations
  asst_pc,                       \* where the run is
  asst_i,                        \* the iteration, from 1
  asst_attempt,                  \* the attempt of generate_schedule, from 0
  asst_problematic_dates,        \* what _pre_schedule_staffing_check returned
  asst_schedule,                 \* the schedule being filled
  asst_slots,                    \* the slots still to fill in the current pass
  asst_normal_slots,             \* the normal slots, before they are shuffled
  asst_shuffled_assistants,      \* the shuffled list of the names
  asst_best_schedule,
  asst_best_metrics,
  asst_suggestions               \* what suggest_negotiations_for_unfilled returned

assistant_inputs == <<asst_pre_assignments, asst_iterations>>
assistant_attempt_vars == <<asst_attempt, asst_schedule, asst_slots, asst_normal_slots, asst_shuffled_assistants>>
assistant_optimizer_vars == <<asst_i, asst_problematic_dates, asst_best_schedule, asst_best_metrics>>
assistant_vars == <<assistant_inputs, asst_pc, assistant_attempt_vars, assistant_optimizer_vars, asst_suggestions>>

\* the progress bar handed to the scheduler and what it shows
VARIABLES
  progress_bar,                  \* the argument progress_bar / self.progress_bar
  progress                       \* the value and the text last given to progress_bar.progress

progress_vars == <<progress_bar, progress>>

vars == <<pharmacist_vars, assistant_vars, progress_vars>>

Dates == 1..last_day

zero_counts == [p \in PharmacistNames |-> 0]
zero_run_state ==
  [p \in PharmacistNames |->
     [night_shift_count |-> 0, mixing_shift_count |-> 0,
      category_counts |-> [Mixing |-> 0, Night |-> 0]]]
\* best_schedule = None: no schedule (a schedule has at least one date)
NoSchedule == <<>>
\* shuffled_shifts = None and shuffled_pharmacists = None: the attempt shuffles
NoInjection == <<>>
\* no earlier run
NoRun == <<>>
\* no workbook written yet
NoSheet == <<>>
\* progress_bar=None, and the bar the page makes with st.progress(0, text=...)
NoProgressBar == "None"
opt_progress_bar == "opt_progress_bar"
ProgressBars == {NoProgressBar, opt_progress_bar}
\* nothing is shown without a bar; a new bar shows 0
NothingShown == <<>>
st_progress(bar) == IF bar = NoProgressBar THEN NothingShown ELSE [value |-> <<0, 1>>, text |-> <<>>]
\* the page hands its bar to the scheduler it runs
page_progress_bar ==
  /\ progress_bar = opt_progress_bar
  /\ progress = st_progress(progress_bar)

\* a report made without looking whether there is a bar
progress_guard_absent(bar) == TRUE
\* "if progress_bar:" and "if self.progress_bar:"
progress_guard(bar) == bar # NoProgressBar
\* progress_bar.progress(...) returns on a bar, and raises AttributeError on None
progress_call_returns(bar) == bar # NoProgressBar
\* the report is skipped or returns: the loop goes on
progress_reported(bar) == progress_guard(bar) => progress_call_returns(bar)
\* what the bar shows once progress_bar.progress(value, text=text) was called
progress_shown(bar, value, text) ==
  IF progress_guard(bar) THEN [value |-> value, text |-> text] ELSE progress

empty_unfilled_info == [problem_days |-> <<>>, other_days |-> <<>>]
empty_schedule(dates) == [d \in dates |-> [s \in ShiftCodeSet |-> NO_SHIFT]]

\* values of the locals of an attempt that is not running
no_attempt ==
  /\ pharmacist_hours' = zero_counts
  /\ pharmacist_consecutive_days' = zero_counts
  /\ pharmacist_weekend_work_count' = zero_counts
  /\ shuffled_pharmacists' = <<>>
  /\ standard_shift_order' = <<>>
  /\ problem_day_shift_order' = <<>>
  /\ processing_order_dates' = <<>>
  /\ date_idx' = 0
  /\ shift_idx' = 0

inf_metrics(m) ==
  IF m = "monthly"
  THEN [unfilled_problem_shifts |-> "inf", hour_imbalance_penalty |-> "inf",
        night_variance |-> "inf", preference_score |-> "inf"]
  ELSE [unfilled_problem_shifts |-> "inf", preference_score |-> "inf"]

\* no run of AssistantScheduler: the page runs the scheduler of the type chosen
assistant_idle ==
  /\ asst_pre_assignments = <<>>
  /\ asst_iterations = 0
  /\ asst_pc = "idle"
  /\ asst_i = 0
  /\ asst_attempt = 0
  /\ asst_problematic_dates = {}
  /\ asst_schedule = NoSchedule
  /\ asst_slots = <<>>
  /\ asst_normal_slots = <<>>
  /\ asst_shuffled_assistants = <<>>
  /\ asst_best_schedule = NoSchedule
  /\ asst_best_metrics = NoSchedule
  /\ asst_suggestions = NoSheet

pharmacist_run_state(days, iters, modes, rows, injections, at) ==
  /\ mode \in modes
  /\ iterations \in iters
  /\ last_day \in days
  /\ pre_assignments \in rows
  /\ injected \in injections
  /\ stop_generation = FALSE
  /\ first_run = NoRun
  /\ ws_negotiate = NoSheet
  /\ pc = at
  /\ i = 0
  /\ problem_days = {}
  /\ best_schedule = NoSchedule
  /\ best_metrics = inf_metrics(mode)
  /\ best_unfilled_info = empty_unfilled_info
  /\ schedule_dict = NoSchedule
  /\ unfilled_info = empty_unfilled_info
  /\ pharmacists = zero_run_state
  /\ pharmacist_hours = zero_counts
  /\ pharmacist_consecutive_days = zero_counts
  /\ pharmacist_weekend_work_count = zero_counts
  /\ shuffled_pharmacists = <<>>
  /\ standard_shift_order = <<>>
  /\ problem_day_shift_order = <<>>
  /\ processing_order_dates = <<>>
  /\ date_idx = 0
  /\ shift_idx = 0

\* no call of the helper is followed
NoCall == <<>>

pharmacist_state(days, iters, modes, rows, injections, at) ==
  /\ pharmacist_run_state(days, iters, modes, rows, injections, at)
  /\ preference_call = NoCall
  /\ multipliers_call = NoCall
  /\ availability_call = NoCall
  /\ overlap_call = NoCall
  /\ comparison_call = NoCall
  /\ engine_calls = NoCall

InitWith(days, iters, modes, rows, injections) ==
  pharmacist_state(days, iters, modes, rows, injections, "start") /\ assistant_idle /\ page_progress_bar

\* single-attempt runs over the longer horizon
Init == InitWith({MonthDays}, {1}, Modes, PreAssignmentInputs, {NoInjection})

\* multi-iteration runs over the shorter horizon
InitOpt == InitWith({ShortMonthDays}, 1..MaxIterations, Modes, {<<>>}, {NoInjection})

---------------------------------------------------------------------------
(* The iterated optimizer: entry *)

\* the test made with "at most" in the place of "less than"
_pre_check_staffing_levels_not_strict(dates) ==
  {date \in dates :
     Cardinality({p \in PharmacistNames : date \notin pharmacists_data[p].holidays})
       <= Cardinality({st \in ShiftCodeSet : is_shift_available_on_date(st, date)}) + STAFF_BUFFER}

\* _pre_check_staffing_levels / _pre_check_staffing_for_dates: the dates added
\* to self.problem_days
_pre_check_staffing_levels(dates) ==
  {date \in dates :
     LET available_pharmacists_count ==
           Cardinality({p \in PharmacistNames : date \notin pharmacists_data[p].holidays})
         required_shifts_base ==
           Cardinality({st \in ShiftCodeSet : is_shift_available_on_date(st, date)})
     IN available_pharmacists_count < required_shifts_base + STAFF_BUFFER}

\* optimize_schedule / optimize_schedule_for_dates up to the loop
optimize_schedule ==
  /\ pc = "start"
  /\ best_schedule' = NoSchedule
  /\ best_metrics' = inf_metrics(mode)
  /\ best_unfilled_info' = empty_unfilled_info
  /\ problem_days' = problem_days \cup _pre_check_staffing_levels(Dates)
  /\ i' = 0
  /\ pc' = "loop"
  /\ UNCHANGED <<progress_vars, assistant_vars, inputs, environment, attempt_vars>>


---------------------------------------------------------------------------
(* The greedy assignment pass: generate_monthly_schedule_shuffled and      *)
(* generate_schedule_for_dates                                             *)

\* the two shift orders built from one shuffled list of the shift codes
shift_orders(shuffled_shifts) ==
  LET night_shifts_ordered == SelectSeq(shuffled_shifts, is_night_shift)
      mixing_shifts_ordered ==
        SelectSeq(shuffled_shifts, LAMBDA s : startswith(s, "C8") /\ ~is_night_shift(s))
      care_shifts_ordered ==
        SelectSeq(shuffled_shifts,
                  LAMBDA s : startswith(s, "Care") /\ ~is_night_shift(s) /\ ~startswith(s, "C8"))
      other_shifts_ordered ==
        SelectSeq(shuffled_shifts,
                  LAMBDA s : ~is_night_shift(s) /\ ~startswith(s, "C8") /\ ~startswith(s, "Care"))
  IN [ standard_shift_order |->
         night_shifts_ordered \o mixing_shifts_ordered \o care_shifts_ordered \o other_shifts_ordered,
       problem_day_shift_order |->
         mixing_shifts_ordered \o care_shifts_ordered \o night_shifts_ordered \o other_shifts_ordered ]

\* the orders random.shuffle(shuffled_shifts) can lead to
ShiftOrderChoices == {shift_orders(q) : q \in shuffles(ShiftCodeSet)}

\* the orders random.shuffle(shuffled_pharmacists) can lead to
PharmacistOrderChoices == shuffled(PharmacistRows)

\* the caller passed shuffled_shifts and shuffled_pharmacists; only
\* generate_monthly_schedule_shuffled has the two parameters
orders_are_injected == injected # NoInjection /\ mode = "monthly"

\* the loop over self.pharmacists that leaves the counters as they are
reset_run_state_keeping_counts(self_pharmacists) == self_pharmacists

\* the loop over self.pharmacists that zeroes night_shift_count,
\* mixing_shift_count and category_counts
reset_run_state(self_pharmacists) == zero_run_state

\* the start of an attempt: fresh schedule and counters, the two shuffles
generate_begin ==
  /\ pc = "loop"
  /\ i < iterations
  /\ schedule_dict' = empty_schedule(Dates)
  /\ pharmacist_hours' = zero_counts
  /\ pharmacist_consecutive_days' = zero_counts
  /\ pharmacist_weekend_work_count' = zero_counts
  /\ \E orders \in (IF orders_are_injected THEN {injected.shift_orders} ELSE ShiftOrderChoices) :
       /\ standard_shift_order' = orders.standard_shift_order
       /\ problem_day_shift_order' = orders.problem_day_shift_order
  /\ shuffled_pharmacists' \in (IF orders_are_injected THEN {injected.shuffled_pharmacists}
                                ELSE PharmacistOrderChoices)
  /\ pharmacists' = reset_run_state(pharmacists)
  /\ unfilled_info' = empty_unfilled_info
  /\ processing_order_dates' = <<>>
  /\ date_idx' = 0
  /\ shift_idx' = 0
  /\ pc' = "pre"
  /\ UNCHANGED <<progress_vars, assistant_vars, inputs, environment, i, problem_days, best_schedule, best_metrics, best_unfilled_info>>

\* the pre-assignment loop from its k-th triple on; st holds schedule_dict,
\* self.pharmacists and pharmacist_hours
RECURSIVE apply_pre_assignments(_, _, _)
apply_pre_assignments(rows, k, st) ==
  IF k > Len(rows) THEN st
  ELSE LET pharmacist == rows[k][1]
           date == rows[k][2]
           shift_type == rows[k][3]
       IN IF pharmacist \notin PharmacistNames \/ date \notin DOMAIN st.schedule_dict
             \/ shift_type \notin ShiftCodeSet
          THEN apply_pre_assignments(rows, k + 1, st)
          ELSE apply_pre_assignments(rows, k + 1,
                 [ schedule_dict |-> [st.schedule_dict EXCEPT ![date][shift_type] = pharmacist],
                   pharmacists |-> _update_shift_counts(st.pharmacists, pharmacist, shift_type),
                   pharmacist_hours |->
                     [st.pharmacist_hours EXCEPT ![pharmacist] = @ + shift_types[shift_type].hours] ])

\* the pre-assignments, then the order of the dates: problem days sorted,
\* the other days shuffled
generate_pre_assignments ==
  /\ pc = "pre"
  /\ LET st == apply_pre_assignments(pre_assignments, 1,
                 [schedule_dict |-> schedule_dict, pharmacists |-> pharmacists,
                  pharmacist_hours |-> pharmacist_hours])
     IN /\ schedule_dict' = st.schedule_dict
        /\ pharmacists' = st.pharmacists
        /\ pharmacist_hours' = st.pharmacist_hours
  /\ \E other_dates \in shuffles(Dates \ problem_days) :
       processing_order_dates' = sorted(Dates \cap problem_days) \o other_dates
  /\ date_idx' = 1
  /\ pc' = "date"
  /\ UNCHANGED <<progress_vars, assistant_vars, inputs, environment, i, problem_days, best_schedule, best_metrics, best_unfilled_info,
                 unfilled_info, pharmacist_consecutive_days, pharmacist_weekend_work_count,
                 shuffled_pharmacists, standard_shift_order, problem_day_shift_order, shift_idx>>

current_date == processing_order_dates[date_idx]
shifts_to_process ==
  IF current_date \in problem_days THEN problem_day_shift_order ELSE standard_shift_order
current_shift == shifts_to_process[shift_idx]

\* the test that makes the loop over the shifts "continue": the cell is
\* filled already, or the shift is not offered on the date
cell_is_skipped_when_not_offered(schedule, date, shift_type) ==
  ~is_shift_available_on_date(shift_type, date)

cell_is_skipped(schedule, date, shift_type) ==
  \/ (IF mode = "monthly"
      THEN schedule[date][shift_type] \notin EmptyCells
      ELSE schedule[date][shift_type] # NO_SHIFT)
  \/ ~is_shift_available_on_date(shift_type, date)

\* the position, from k on, of the first shift of the current date that the
\* loop does not skip; 0 when it skips them all
first_open(schedule, k) ==
  LET open == {j \in k..Len(shifts_to_process) :
                 ~cell_is_skipped(schedule, current_date, shifts_to_process[j])}
  IN IF open = {} THEN 0 ELSE CHOOSE j \in open : \A other \in open : j <= other

\* the loop moves on from position k - 1 of the current date, over the shifts
\* it skips, to the next cell to decide or to the next date
move_to(schedule, k) ==
  LET next_idx == first_open(schedule, k)
  IN IF next_idx = 0
     THEN /\ shift_idx' = 0
          /\ date_idx' = date_idx + 1
          /\ pc' = "date"
     ELSE /\ shift_idx' = next_idx
          /\ date_idx' = date_idx
          /\ pc' = "shift"

\* the top of the loop over the dates: the consecutive-days counters
generate_next_date_outcome(bar) ==
  /\ pc = "date"
  /\ date_idx <= Len(processing_order_dates)
  /\ progress_reported(bar)
  /\ LET previous_date == current_date - 1
         pharmacists_working_yesterday ==
           IF previous_date \in DOMAIN schedule_dict
           THEN Range0(schedule_dict[previous_date]) \cap PharmacistNames
           ELSE {}
     IN pharmacist_consecutive_days' =
          [p_name \in PharmacistNames |->
             IF p_name \in pharmacists_working_yesterday
             THEN pharmacist_consecutive_days[p_name] + 1
             ELSE 0]
  /\ move_to(schedule_dict, 1)
  /\ UNCHANGED <<assistant_vars, inputs, environment, i, problem_days, best_schedule, best_metrics, best_unfilled_info,
                 schedule_dict, unfilled_info, pharmacists, pharmacist_hours,
                 pharmacist_weekend_work_count, shuffled_pharmacists, standard_shift_order,
                 problem_day_shift_order, processing_order_dates>>

\* with the report to the progress bar: (i + 1) / total_dates and the text
\* naming iteration_num and the date
generate_next_date ==
  /\ generate_next_date_outcome(progress_bar)
  /\ progress' = progress_shown(progress_bar, <<date_idx, Len(processing_order_dates)>>,
                                <<i + 1, current_date>>)
  /\ UNCHANGED progress_bar

available ==
  _get_available_pharmacists_optimized(shuffled_pharmacists, current_date, current_shift,
                                       schedule_dict, pharmacist_hours, pharmacist_consecutive_days,
                                       pharmacist_weekend_work_count, pharmacists)

\* the bookkeeping after schedule_dict[date][shift_type] = pharmacist_to_assign
assign(pharmacist_to_assign) ==
  /\ schedule_dict' = [schedule_dict EXCEPT ![current_date][current_shift] = pharmacist_to_assign]
  /\ pharmacists' = _update_shift_counts(pharmacists, pharmacist_to_assign, current_shift)
  /\ pharmacist_hours' =
       [pharmacist_hours EXCEPT ![pharmacist_to_assign] = @ + shift_types[current_shift].hours]
  /\ pharmacist_weekend_work_count' =
       IF weekday(current_date) >= SATURDAY
       THEN [pharmacist_weekend_work_count EXCEPT ![pharmacist_to_assign] = @ + 1]
       ELSE pharmacist_weekend_work_count
  /\ move_to([schedule_dict EXCEPT ![current_date][current_shift] = pharmacist_to_assign], shift_idx + 1)

\* the pharmacist _select_best_pharmacist returns from a list that is not empty
assign_best(available_pharmacists) ==
  /\ Len(available_pharmacists) > 0
  /\ assign(_select_best_pharmacist(available_pharmacists, current_shift, current_date,
                                    (current_date + 1) \in problem_days).name)

\* an eligible pharmacist exists: the one _select_best_pharmacist returns
\* gets the cell
generate_assign ==
  /\ pc = "shift"
  /\ assign_best(available)
  /\ UNCHANGED <<progress_vars, assistant_vars, inputs, environment, i, problem_days, best_schedule, best_metrics, best_unfilled_info,
                 unfilled_info, pharmacist_consecutive_days, shuffled_pharmacists,
                 standard_shift_order, problem_day_shift_order, processing_order_dates>>

\* nobody is eligible and the attempt goes on: a problem day, or any day of
\* generate_schedule_for_dates
generate_unfilled ==
  /\ pc = "shift"
  /\ Len(available) = 0
  /\ current_date \in problem_days \/ mode = "for_dates"
  /\ schedule_dict' = [schedule_dict EXCEPT ![current_date][current_shift] = UNFILLED]
  /\ unfilled_info' =
       IF current_date \in problem_days
       THEN [unfilled_info EXCEPT !.problem_days = Append(@, <<current_date, current_shift>>)]
       ELSE [unfilled_info EXCEPT !.other_days = Append(@, <<current_date, current_shift>>)]
  /\ move_to([schedule_dict EXCEPT ![current_date][current_shift] = UNFILLED], shift_idx + 1)
  /\ UNCHANGED <<progress_vars, assistant_vars, inputs, environment, i, problem_days, best_schedule, best_metrics, best_unfilled_info,
                 pharmacists, pharmacist_hours, pharmacist_consecutive_days,
                 pharmacist_weekend_work_count, shuffled_pharmacists, standard_shift_order,
                 problem_day_shift_order, processing_order_dates>>

\* nobody is eligible on a day that is no problem day:
\* generate_monthly_schedule_shuffled returns at once
generate_unfilled_return ==
  /\ pc = "shift"
  /\ Len(available) = 0
  /\ current_date \notin problem_days
  /\ mode = "monthly"
  /\ schedule_dict' = [schedule_dict EXCEPT ![current_date][current_shift] = UNFILLED]
  /\ unfilled_info' = [unfilled_info EXCEPT !.other_days = Append(@, <<current_date, current_shift>>)]
  /\ no_attempt
  /\ pc' = "returned"
  /\ UNCHANGED <<progress_vars, assistant_vars, inputs, environment, i, problem_days, best_schedule, best_metrics, best_unfilled_info, pharmacists>>

\* every date is done: the attempt returns its schedule and unfilled_info
generate_return ==
  /\ pc = "date"
  /\ date_idx > Len(processing_order_dates)
  /\ no_attempt
  /\ pc' = "returned"
  /\ UNCHANGED <<progress_vars, assistant_vars, inputs, environment, i, problem_days, best_schedule, best_metrics, best_unfilled_info,
                 schedule_dict, unfilled_info, pharmacists>>

\* the metrics the optimizer computes for the returned schedule
current_metrics ==
  calculate_schedule_metrics(schedule_dict, pharmacists,
    IF mode = "monthly" THEN Len(unfilled_info.problem_days)
    ELSE Len(unfilled_info.problem_days) + Len(unfilled_info.other_days))

\* the "continue" left out: the attempt is kept when nothing was kept before
optimize_discard_keeps_first ==
  /\ pc = "returned"
  /\ mode = "monthly"
  /\ Len(unfilled_info.other_days) > 0
  /\ IF best_schedule = NoSchedule
     THEN /\ best_schedule' = schedule_dict
          /\ best_metrics' = current_metrics
          /\ best_unfilled_info' = unfilled_info
     ELSE UNCHANGED <<best_schedule, best_metrics, best_unfilled_info>>
  /\ i' = i + 1
  /\ pc' = "loop"
  /\ schedule_dict' = NoSchedule
  /\ unfilled_info' = empty_unfilled_info
  /\ UNCHANGED <<progress_vars, assistant_vars, inputs, environment, problem_days, pharmacists,
                 pharmacist_hours, pharmacist_consecutive_days, pharmacist_weekend_work_count,
                 shuffled_pharmacists, standard_shift_order, problem_day_shift_order,
                 processing_order_dates, date_idx, shift_idx>>

\* optimize_schedule drops an attempt that left a shift unfilled on a day that
\* is no problem day ("continue")
optimize_discard ==
  /\ pc = "returned"
  /\ mode = "monthly"
  /\ Len(unfilled_info.other_days) > 0
  /\ i' = i + 1
  /\ pc' = "loop"
  /\ schedule_dict' = NoSchedule
  /\ unfilled_info' = empty_unfilled_info
  /\ UNCHANGED <<progress_vars, assistant_vars, inputs, environment, problem_days, best_schedule, best_metrics, best_unfilled_info, pharmacists,
                 pharmacist_hours, pharmacist_consecutive_days, pharmacist_weekend_work_count,
                 shuffled_pharmacists, standard_shift_order, problem_day_shift_order,
                 processing_order_dates, date_idx, shift_idx>>

\* the optimizer compares the returned schedule with the best one so far
optimize_evaluate ==
  /\ pc = "returned"
  /\ ~(mode = "monthly" /\ Len(unfilled_info.other_days) > 0)
  /\ IF best_schedule = NoSchedule \/ is_schedule_better(current_metrics, best_metrics)
     THEN /\ best_schedule' = schedule_dict
          /\ best_metrics' = current_metrics
          /\ best_unfilled_info' = unfilled_info
     ELSE UNCHANGED <<best_schedule, best_metrics, best_unfilled_info>>
  /\ i' = i + 1
  /\ pc' = "loop"
  /\ schedule_dict' = NoSchedule
  /\ unfilled_info' = empty_unfilled_info
  /\ UNCHANGED <<progress_vars, assistant_vars, inputs, environment, problem_days, pharmacists,
                 pharmacist_hours, pharmacist_consecutive_days, pharmacist_weekend_work_count,
                 shuffled_pharmacists, standard_shift_order, problem_day_shift_order,
                 processing_order_dates, date_idx, shift_idx>>

\* the loop is over: return best_schedule, best_unfilled_info
optimize_return ==
  /\ pc = "loop"
  /\ ~(i < iterations)
  /\ pc' = "done"
  /\ UNCHANGED <<progress_vars, assistant_vars, inputs, environment, i, problem_days, best_schedule, best_metrics, best_unfilled_info, attempt_vars>>

\* a schedule was returned: the page writes the workbook
export_to_excel ==
  /\ pc = "done"
  /\ best_schedule # NoSchedule
  /\ ws_negotiate = NoSheet
  /\ ws_negotiate' = create_negotiation_summary(best_schedule)
  /\ UNCHANGED <<progress_vars, assistant_vars, inputs, stop_generation, first_run, optimizer_vars, attempt_vars>>

\* the Stop button's callback
request_stop ==
  /\ pc \notin {"start", "done"}
  /\ ~stop_generation
  /\ stop_generation' = TRUE
  /\ UNCHANGED <<progress_vars, assistant_vars, inputs, first_run, ws_negotiate, optimizer_vars, attempt_vars>>

\* the same call made a second time, with the same arguments
second_run ==
  /\ pc = "done"
  /\ first_run = NoRun
  /\ first_run' = <<best_schedule>>
  /\ pc' = "start"
  /\ progress' = st_progress(progress_bar)
  /\ UNCHANGED <<progress_bar, assistant_vars, inputs, stop_generation, ws_negotiate, i, problem_days, best_schedule, best_metrics,
                 best_unfilled_info, attempt_vars>>

Next ==
  \/ optimize_schedule
  \/ generate_begin
  \/ generate_pre_assignments
  \/ generate_next_date
  \/ generate_assign
  \/ generate_unfilled
  \/ generate_unfilled_return
  \/ generate_return
  \/ optimize_discard
  \/ optimize_evaluate
  \/ optimize_return
  \/ export_to_excel

Spec == Init /\ [][Next]_vars
SpecOpt == InitOpt /\ [][Next]_vars

\* single-attempt runs with a pre-assignment in a capped category
InitCapped == InitWith({MonthDays}, {1}, Modes, CappedPreAssignmentInputs, {NoInjection})
SpecCapped == InitCapped /\ [][Next]_vars

\* PreAssignments sheets that leave the pharmacists with different counts
\* of night and mixing shifts and different hours before the first pick
KeyPreAssignmentInputs ==
  { << <<"A", 1, "I100-10">>, <<"B", 1, "C8-1">>, <<"C", 1, "O100-H">> >>,
    << <<"D", 1, "I100-10">> >>,
    << <<"D", 2, "Care-1">> >> }

\* single-attempt runs over a horizon one day longer
InitKeys == InitWith({MonthDays + 1}, {1}, Modes, KeyPreAssignmentInputs, {NoInjection})
SpecKeys == InitKeys /\ [][Next]_vars

\* two runs of one attempt each with the same injected orders
InjectionChoices ==
  {[shift_orders |-> o, shuffled_pharmacists |-> q] :
     o \in ShiftOrderChoices, q \in PharmacistOrderChoices}
InitTwoRuns ==
  \/ InitWith({ShortMonthDays}, {1}, {"monthly"}, {<<>>}, InjectionChoices)
  \/ InitWith({ShortMonthDays}, {1}, {"for_dates"}, {<<>>}, {NoInjection})
NextTwoRuns == Next \/ second_run
SpecTwoRuns == InitTwoRuns /\ [][NextTwoRuns]_vars

\* runs during which the Stop button may be pressed
InitStop == InitWith({ShortMonthDays}, {MaxIterations}, Modes, {<<>>}, {NoInjection})
NextStop == Next \/ request_stop
SpecStop == InitStop /\ [][NextStop]_vars

---------------------------------------------------------------------------
(* AssistantScheduler: optimize_schedule, generate_schedule and the        *)
(* negotiator                                                              *)

\* the PreAssignments sheets tried: rows of name, date and shift, in the
\* order of self.pre_assignments (by name, then by date)
AssistantPreAssignmentInputs ==
  { <<>>,
    << <<"P", 3, "C8-1">>, <<"Q", 2, "I100-16">> >>,
    << <<"P", 1, "O100-2">>, <<"S", 3, "O100-2">>, <<"S", 9, "C8-1">>, <<"Z", 1, "C8-1">> >> }

_pre_schedule_staffing_check(dates) ==
  {date \in dates :
     LET num_shifts == Cardinality({st \in AssistantShiftCodeSet : assistant_is_shift_available_on_date(st, date)})
         num_available == Cardinality({name \in AssistantNames : date \notin assistants_data[name].holidays})
     IN num_available < num_shifts + ASSISTANT_STAFF_BUFFER}

\* a new schedule with the pre-assignments of the sheet written into it
RECURSIVE with_pre_assignments(_, _, _)
with_pre_assignments(schedule, rows, k) ==
  IF k > Len(rows) THEN schedule
  ELSE IF rows[k][1] \in AssistantNames /\ rows[k][2] \in DOMAIN schedule
          /\ rows[k][3] \in AssistantShiftCodeSet
       THEN with_pre_assignments([schedule EXCEPT ![rows[k][2]][rows[k][3]] = rows[k][1]], rows, k + 1)
       ELSE with_pre_assignments(schedule, rows, k + 1)

new_assistant_schedule ==
  with_pre_assignments([date \in AssistantDates |-> [st \in AssistantShiftCodeSet |-> NO_SHIFT]],
                       asst_pre_assignments, 1)

\* the open slots of the schedule, shift by shift in the order given, and
\* date by date for each shift
RECURSIVE open_slots(_, _)
open_slots(schedule, all_shifts) ==
  IF Len(all_shifts) = 0 THEN <<>>
  ELSE LET shift_type == all_shifts[1]
           dates == SelectSeq(sorted(AssistantDates),
                      LAMBDA date : /\ schedule[date][shift_type] = NO_SHIFT
                                    /\ assistant_is_shift_available_on_date(shift_type, date))
       IN [k \in 1..Len(dates) |-> <<dates[k], shift_type>>] \o open_slots(schedule, Tail(all_shifts))

\* the name chosen, the cell left as it was when nobody is available
best_or_left_open(available_assistants, schedule, slot, problematic_dates) ==
  IF Len(available_assistants) > 0
  THEN _select_best_assistant(available_assistants, slot[2], slot[1], problematic_dates, schedule).name
  ELSE NO_SHIFT

\* the name chosen from the assistants available, or UNFILLED
best_or_unfilled(available_assistants, schedule, slot, problematic_dates) ==
  IF Len(available_assistants) > 0
  THEN _select_best_assistant(available_assistants, slot[2], slot[1], problematic_dates, schedule).name
  ELSE UNFILLED

\* what filling one slot leaves in it: the name chosen, or UNFILLED
filled_cell(schedule, shuffled_assistants, slot, problematic_dates) ==
  best_or_unfilled(_get_available_assistants(shuffled_assistants, slot[1], slot[2], schedule),
                   schedule, slot, problematic_dates)

\* the page calls optimize_schedule: the staffing check
assistant_optimize_schedule ==
  /\ asst_pc = "start"
  /\ asst_problematic_dates' = _pre_schedule_staffing_check(AssistantDates)
  /\ asst_best_schedule' = NoSchedule
  /\ asst_best_metrics' = assistant_inf_metrics
  /\ asst_i' = 1
  /\ asst_pc' = "iteration"
  /\ UNCHANGED <<progress_vars, pharmacist_vars, assistant_inputs, assistant_attempt_vars, asst_suggestions>>

\* the top of the loop over the iterations: generate_schedule is called
assistant_next_iteration_outcome(bar) ==
  /\ asst_pc = "iteration"
  /\ asst_i <= asst_iterations
  /\ progress_reported(bar)
  /\ asst_attempt' = 0
  /\ asst_pc' = "attempt"
  /\ UNCHANGED <<pharmacist_vars, assistant_inputs, assistant_optimizer_vars, asst_schedule, asst_slots,
                 asst_normal_slots, asst_shuffled_assistants, asst_suggestions>>

\* with self._update_progress((i + 1) / iterations, text)
assistant_next_iteration ==
  /\ assistant_next_iteration_outcome(progress_bar)
  /\ progress' = progress_shown(progress_bar, <<asst_i, asst_iterations>>, <<asst_i, asst_iterations>>)
  /\ UNCHANGED progress_bar

\* an attempt of generate_schedule begins: pre-assignments, the shuffles and
\* the three lists of slots
assistant_generate_schedule ==
  /\ asst_pc = "attempt"
  /\ asst_attempt < max_attempts
  /\ LET schedule == new_assistant_schedule
     IN /\ asst_schedule' = schedule
        /\ \E all_shifts \in shuffled(AssistantShiftCodes) :
             LET slots == open_slots(schedule, all_shifts)
                 problematic_mixing_slots ==
                   SelectSeq(slots, LAMBDA slot : slot[1] \in asst_problematic_dates /\ startswith(slot[2], "C8"))
                 problematic_other_slots ==
                   SelectSeq(slots, LAMBDA slot : slot[1] \in asst_problematic_dates /\ ~startswith(slot[2], "C8"))
                 normal_slots == SelectSeq(slots, LAMBDA slot : slot[1] \notin asst_problematic_dates)
             IN /\ asst_slots' = problematic_mixing_slots \o problematic_other_slots
                /\ asst_normal_slots' = normal_slots
  /\ asst_shuffled_assistants' \in shuffled(AssistantRows)
  /\ asst_pc' = "problematic"
  /\ UNCHANGED <<progress_vars, pharmacist_vars, assistant_inputs, assistant_optimizer_vars, asst_attempt, asst_suggestions>>

\* fill_slots: one slot of a problematic date
assistant_fill_slots ==
  /\ asst_pc = "problematic"
  /\ Len(asst_slots) > 0
  /\ asst_schedule' =
       [asst_schedule EXCEPT ![asst_slots[1][1]][asst_slots[1][2]] =
          filled_cell(asst_schedule, asst_shuffled_assistants, asst_slots[1], asst_problematic_dates)]
  /\ asst_slots' = Tail(asst_slots)
  /\ UNCHANGED <<progress_vars, pharmacist_vars, assistant_inputs, assistant_optimizer_vars, asst_pc, asst_attempt,
                 asst_normal_slots, asst_shuffled_assistants, asst_suggestions>>

\* random.shuffle(normal_slots)
assistant_shuffle_normal_slots ==
  /\ asst_pc = "problematic"
  /\ Len(asst_slots) = 0
  /\ asst_slots' \in shuffled(asst_normal_slots)
  /\ asst_normal_slots' = <<>>
  /\ asst_pc' = "normal"
  /\ UNCHANGED <<progress_vars, pharmacist_vars, assistant_inputs, assistant_optimizer_vars, asst_attempt, asst_schedule,
                 asst_shuffled_assistants, asst_suggestions>>

\* the first normal slot gets the cell value, unless nobody is available
normal_slot_gets(cell) ==
  /\ cell # UNFILLED
  /\ asst_schedule' = [asst_schedule EXCEPT ![asst_slots[1][1]][asst_slots[1][2]] = cell]

\* the loop over the normal slots: a slot is given to an assistant
assistant_fill_normal_slot ==
  /\ asst_pc = "normal"
  /\ Len(asst_slots) > 0
  /\ normal_slot_gets(filled_cell(asst_schedule, asst_shuffled_assistants, asst_slots[1], asst_problematic_dates))
  /\ asst_slots' = Tail(asst_slots)
  /\ UNCHANGED <<progress_vars, pharmacist_vars, assistant_inputs, assistant_optimizer_vars, asst_pc, asst_attempt,
                 asst_normal_slots, asst_shuffled_assistants, asst_suggestions>>

\* the loop over the normal slots: nobody is available, the attempt failed
\* and the next attempt begins
assistant_attempt_failed ==
  /\ asst_pc = "normal"
  /\ Len(asst_slots) > 0
  /\ filled_cell(asst_schedule, asst_shuffled_assistants, asst_slots[1], asst_problematic_dates) = UNFILLED
  /\ asst_schedule' = [asst_schedule EXCEPT ![asst_slots[1][1]][asst_slots[1][2]] = UNFILLED]
  /\ asst_slots' = <<>>
  /\ asst_attempt' = asst_attempt + 1
  /\ asst_pc' = "attempt"
  /\ UNCHANGED <<progress_vars, pharmacist_vars, assistant_inputs, assistant_optimizer_vars, asst_normal_slots,
                 asst_shuffled_assistants, asst_suggestions>>

\* every normal slot is filled: generate_schedule returns the schedule
assistant_attempt_returns ==
  /\ asst_pc = "normal"
  /\ Len(asst_slots) = 0
  /\ asst_pc' = "returned"
  /\ UNCHANGED <<progress_vars, pharmacist_vars, assistant_inputs, assistant_optimizer_vars, assistant_attempt_vars,
                 asst_suggestions>>

\* no attempt succeeded: _final_fallback_generation begins
assistant_final_fallback_generation ==
  /\ asst_pc = "attempt"
  /\ asst_attempt >= max_attempts
  /\ LET schedule == new_assistant_schedule
     IN /\ asst_schedule' = schedule
        /\ \E all_shifts \in shuffled(AssistantShiftCodes) : asst_slots' = open_slots(schedule, all_shifts)
  /\ asst_normal_slots' = <<>>
  /\ asst_shuffled_assistants' \in shuffled(AssistantRows)
  /\ asst_pc' = "fallback"
  /\ UNCHANGED <<progress_vars, pharmacist_vars, assistant_inputs, assistant_optimizer_vars, asst_attempt, asst_suggestions>>

\* _final_fallback_generation: one slot
assistant_fallback_fill ==
  /\ asst_pc = "fallback"
  /\ Len(asst_slots) > 0
  /\ asst_schedule' =
       [asst_schedule EXCEPT ![asst_slots[1][1]][asst_slots[1][2]] =
          filled_cell(asst_schedule, asst_shuffled_assistants, asst_slots[1], {})]
  /\ asst_slots' = Tail(asst_slots)
  /\ UNCHANGED <<progress_vars, pharmacist_vars, assistant_inputs, assistant_optimizer_vars, asst_pc, asst_attempt,
                 asst_normal_slots, asst_shuffled_assistants, asst_suggestions>>

\* _final_fallback_generation returns its schedule
assistant_fallback_returns ==
  /\ asst_pc = "fallback"
  /\ Len(asst_slots) = 0
  /\ asst_pc' = "returned"
  /\ UNCHANGED <<progress_vars, pharmacist_vars, assistant_inputs, assistant_optimizer_vars, assistant_attempt_vars,
                 asst_suggestions>>

\* the metrics of the schedule returned and the comparison with the best
assistant_evaluate ==
  /\ asst_pc = "returned"
  /\ LET metrics == assistant_calculate_schedule_metrics(asst_schedule)
     IN IF asst_best_schedule = NoSchedule \/ assistant_is_schedule_better(metrics, asst_best_metrics)
        THEN asst_best_schedule' = asst_schedule /\ asst_best_metrics' = metrics
        ELSE UNCHANGED <<asst_best_schedule, asst_best_metrics>>
  /\ asst_i' = asst_i + 1
  /\ asst_pc' = "iteration"
  /\ UNCHANGED <<progress_vars, pharmacist_vars, assistant_inputs, asst_problematic_dates, assistant_attempt_vars,
                 asst_suggestions>>

\* the loop over the iterations is over: optimize_schedule returns best_schedule
assistant_optimize_return ==
  /\ asst_pc = "iteration"
  /\ asst_i > asst_iterations
  /\ asst_pc' = "done"
  /\ UNCHANGED <<progress_vars, pharmacist_vars, assistant_inputs, assistant_optimizer_vars, assistant_attempt_vars,
                 asst_suggestions>>

\* the UNFILLED cells of the schedule, row by row
RECURSIVE unfilled_slots(_, _)
unfilled_slots(schedule, dates) ==
  IF Len(dates) = 0 THEN <<>>
  ELSE LET columns == SelectSeq(AssistantShiftCodes, LAMBDA col : schedule[dates[1]][col] = UNFILLED)
       IN [k \in 1..Len(columns) |-> <<dates[1], columns[k]>>] \o unfilled_slots(schedule, Tail(dates))

\* the names random.choice may pick for the slot
eligible(date, shift_type) ==
  LET req_skills == SelectSeq(assistant_shift_types[shift_type].required_skills, LAMBDA s : s # "" /\ s # NaN)
  IN SelectSeq(AssistantRows,
       LAMBDA name : /\ \A k \in 1..Len(req_skills) : Contains(assistants_data[name].skills, req_skills[k])
                     /\ date \notin assistants_data[name].holidays)

\* the page calls suggest_negotiations_for_unfilled on the schedule returned
suggest_negotiations_for_unfilled ==
  /\ asst_pc = "done"
  /\ asst_best_schedule # NoSchedule
  /\ LET slots == unfilled_slots(asst_best_schedule, sorted(DOMAIN asst_best_schedule))
     IN \E choice \in [1..Len(slots) -> AssistantNames] :
          /\ \A k \in 1..Len(slots) :
               Len(eligible(slots[k][1], slots[k][2])) > 0
                 => Contains(eligible(slots[k][1], slots[k][2]), choice[k])
          /\ \A k \in 1..Len(slots) :
               Len(eligible(slots[k][1], slots[k][2])) = 0 => choice[k] = AssistantRows[1]
          /\ asst_suggestions' =
               [k \in 1..Len(slots) |->
                  [date |-> slots[k][1], shift |-> slots[k][2],
                   suggestion |-> IF Len(eligible(slots[k][1], slots[k][2])) > 0 THEN choice[k]
                                  ELSE NO_ELIGIBLE_ASSISTANT]]
  /\ asst_pc' = "suggested"
  /\ UNCHANGED <<progress_vars, pharmacist_vars, assistant_inputs, assistant_optimizer_vars, assistant_attempt_vars>>

\* runs of AssistantScheduler: the pharmacists' scheduler is not run
assistant_run_state ==
  /\ asst_pre_assignments \in AssistantPreAssignmentInputs
  /\ asst_iterations \in 1..AssistantMaxIterations
  /\ asst_pc = "start"
  /\ asst_i = 0
  /\ asst_attempt = 0
  /\ asst_problematic_dates = {}
  /\ asst_schedule = NoSchedule
  /\ asst_slots = <<>>
  /\ asst_normal_slots = <<>>
  /\ asst_shuffled_assistants = <<>>
  /\ asst_best_schedule = NoSchedule
  /\ asst_best_metrics = assistant_inf_metrics
  /\ asst_suggestions = NoSheet

assistant_state ==
  /\ pharmacist_state({ShortMonthDays}, {1}, {"monthly"}, {<<>>}, {NoInjection}, "idle")
  /\ assistant_run_state

InitAssistant == assistant_state /\ page_progress_bar

NextAssistant ==
  \/ assistant_optimize_schedule
  \/ assistant_next_iteration
  \/ assistant_generate_schedule
  \/ assistant_fill_slots
  \/ assistant_shuffle_normal_slots
  \/ assistant_fill_normal_slot
  \/ assistant_attempt_failed
  \/ assistant_attempt_returns
  \/ assistant_final_fallback_generation
  \/ assistant_fallback_fill
  \/ assistant_fallback_returns
  \/ assistant_evaluate
  \/ assistant_optimize_return
  \/ suggest_negotiations_for_unfilled

SpecAssistant == InitAssistant /\ [][NextAssistant]_vars

\* the first call of generate_schedule in a run, up to its return: the
\* staffing check, the top of the loop over the iterations and the steps of
\* generate_schedule and of _final_fallback_generation
NextGenerateSchedule ==
  \/ assistant_optimize_schedule
  \/ assistant_next_iteration
  \/ assistant_generate_schedule
  \/ assistant_fill_slots
  \/ assistant_shuffle_normal_slots
  \/ assistant_fill_normal_slot
  \/ assistant_attempt_failed
  \/ assistant_attempt_returns
  \/ assistant_final_fallback_generation
  \/ assistant_fallback_fill
  \/ assistant_fallback_returns

\* the loops of generate_schedule run on: a step that can be taken is taken.
\* One iteration of the optimizer, with a PreAssignments sheet that has rows
InitAssistantOnce == InitAssistant /\ asst_iterations = 1 /\ asst_pre_assignments # <<>>
SpecAssistantFair == InitAssistantOnce /\ [][NextGenerateSchedule]_vars /\ WF_vars(NextGenerateSchedule)

\* the page runs the scheduler of the type chosen: either one
InitBoth == Init \/ InitAssistant
NextBoth == Next \/ NextAssistant
SpecBoth == InitBoth /\ [][NextBoth]_vars

\* runs of either scheduler made with a progress bar or with progress_bar=None
InitProgress ==
  /\ \/ pharmacist_state({ShortMonthDays}, 1..MaxIterations, Modes, {<<>>}, {NoInjection}, "start") /\ assistant_idle
     \/ assistant_state
  /\ progress_bar \in ProgressBars
  /\ progress = st_progress(progress_bar)
SpecProgress == InitProgress /\ [][NextBoth]_vars

\* the same with the multi-iteration runs of PharmacistScheduler
InitBothOpt == InitOpt \/ InitAssistant
SpecBothOpt == InitBothOpt /\ [][NextBoth]_vars

\* calls of get_preference_score for pharmacists read from rows of the
\* Pharmacists sheet: the cells a rank column may hold, the rows tried (the
\* first two ranks and the last one filled or empty), the shift codes asked
\* for (the last one is of none of the departments)
RankCells == {NaN, "IPD100", "Mixing", "Care"}
RankRowInputs ==
  { row \in [1..NUM_RANKS -> RankCells] :
      \A r \in 1..NUM_RANKS : r \notin {1, 2, NUM_RANKS} => row[r] = NaN }
PreferenceShiftInputs == {"I100-10", "C8-1", "O100-H", "X9-1"}
NoResult == 0

InitPreference ==
  /\ pharmacist_run_state({MonthDays}, {1}, {"monthly"}, {<<>>}, {NoInjection}, "idle")
  /\ assistant_idle
  /\ page_progress_bar
  /\ preference_call \in [ Ranks : RankRowInputs, shift_type : PreferenceShiftInputs, result : {NoResult} ]
  /\ multipliers_call = NoCall
  /\ availability_call = NoCall
  /\ overlap_call = NoCall
  /\ comparison_call = NoCall
  /\ engine_calls = NoCall

\* the call: the row is read as read_data_from_excel reads it, and
\* get_preference_score is asked for the shift
call_get_preference_score ==
  /\ preference_call # NoCall
  /\ preference_call.result = NoResult
  /\ preference_call' =
       [ preference_call EXCEPT
           !.result = preference_score_of(
                        read_pharmacist([Skills |-> <<>>, Holidays |-> {}, MaxHours |-> <<>>,
                                         Ranks |-> preference_call.Ranks]),
                        preference_call.shift_type) ]
  /\ UNCHANGED <<mode, iterations, last_day, pre_assignments, injected, multipliers_call,
                 availability_call, overlap_call, comparison_call, engine_calls, environment,
                 optimizer_vars, attempt_vars, assistant_vars, progress_vars>>

NextPreference == call_get_preference_score
SpecPreference == InitPreference /\ [][NextPreference]_vars

\* the constructor's call of _calculate_preference_multipliers after
\* HistoricalScores sheets of up to three of the pharmacists
ScoredNames == {"A", "B", "C"}
ScoreInputs == {10, 15, 20}
HistoricalScoreInputs ==
  UNION { [names -> ScoreInputs] : names \in SUBSET ScoredNames }
NoMultipliers == <<>>

InitMultipliers ==
  /\ pharmacist_run_state({MonthDays}, {1}, {"monthly"}, {<<>>}, {NoInjection}, "idle")
  /\ assistant_idle
  /\ page_progress_bar
  /\ preference_call = NoCall
  /\ availability_call = NoCall
  /\ overlap_call = NoCall
  /\ comparison_call = NoCall
  /\ engine_calls = NoCall
  /\ multipliers_call \in [ historical_scores : HistoricalScoreInputs, preference_multipliers : {NoMultipliers} ]

\* self.preference_multipliers once the call returned: for every
\* pharmacist the pair of the numerator and the denominator
call_calculate_preference_multipliers ==
  /\ multipliers_call # NoCall
  /\ multipliers_call.preference_multipliers = NoMultipliers
  /\ multipliers_call' =
       [ multipliers_call EXCEPT
           !.preference_multipliers =
              [ p \in PharmacistNames |->
                  << _calculate_preference_multipliers(multipliers_call.historical_scores)[p],
                     multiplier_den(multipliers_call.historical_scores) >> ] ]
  /\ UNCHANGED <<mode, iterations, last_day, pre_assignments, injected, preference_call,
                 availability_call, overlap_call, comparison_call, engine_calls, environment,
                 optimizer_vars, attempt_vars, assistant_vars, progress_vars>>

NextMultipliers == call_calculate_preference_multipliers
SpecMultipliers == InitMultipliers /\ [][NextMultipliers]_vars

\* calls of is_shift_available_on_date of either scheduler for a shift of
\* each category, on each day of the week, a public holiday or not
Schedulers == {"PharmacistScheduler", "AssistantScheduler"}
ShiftCategoryInputs == {"weekday", MON_THU, "saturday", "holiday", "night"}
WeekdayInputs == 0..(DAYS_PER_WEEK - 1)

InitAvailability ==
  /\ pharmacist_run_state({MonthDays}, {1}, {"monthly"}, {<<>>}, {NoInjection}, "idle")
  /\ assistant_idle
  /\ page_progress_bar
  /\ preference_call = NoCall
  /\ multipliers_call = NoCall
  /\ overlap_call = NoCall
  /\ comparison_call = NoCall
  /\ engine_calls = NoCall
  /\ availability_call \in [ scheduler : Schedulers, shift_category : ShiftCategoryInputs,
                              weekday : WeekdayInputs, is_holiday : BOOLEAN,
                              returned : {FALSE}, result : {FALSE} ]

call_is_shift_available_on_date ==
  /\ availability_call # NoCall
  /\ ~availability_call.returned
  /\ availability_call' =
       [ availability_call EXCEPT
           !.returned = TRUE,
           !.result = IF availability_call.scheduler = "PharmacistScheduler"
                      THEN category_offered(availability_call.shift_category, availability_call.weekday,
                                            availability_call.is_holiday)
                      ELSE assistant_category_offered(availability_call.shift_category,
                                                      availability_call.weekday,
                                                      availability_call.is_holiday) ]
  /\ UNCHANGED <<mode, iterations, last_day, pre_assignments, injected, preference_call,
                 multipliers_call, overlap_call, comparison_call, engine_calls, environment,
                 optimizer_vars, attempt_vars, assistant_vars, progress_vars>>

NextAvailability == call_is_shift_available_on_date
SpecAvailability == InitAvailability /\ [][NextAvailability]_vars

\* calls of is_schedule_better on two metrics dicts: each metric is one of
\* two values, the variances and the hour imbalance in the units they are
\* kept in
MetricInputs == {0, 1}
MetricsInputs ==
  [ unfilled_problem_shifts : MetricInputs, hour_imbalance_penalty : MetricInputs,
    night_variance : MetricInputs, preference_score : MetricInputs,
    weekend_off_variance : MetricInputs ]

InitComparison ==
  /\ pharmacist_run_state({MonthDays}, {1}, {"monthly"}, {<<>>}, {NoInjection}, "idle")
  /\ assistant_idle
  /\ page_progress_bar
  /\ preference_call = NoCall
  /\ multipliers_call = NoCall
  /\ availability_call = NoCall
  /\ overlap_call = NoCall
  /\ engine_calls = NoCall
  /\ comparison_call \in [ current_metrics : MetricsInputs, best_metrics : MetricsInputs,
                            returned : {FALSE}, result : {FALSE} ]

call_is_schedule_better ==
  /\ comparison_call # NoCall
  /\ ~comparison_call.returned
  /\ comparison_call' =
       [ comparison_call EXCEPT
           !.returned = TRUE,
           !.result = is_schedule_better(comparison_call.current_metrics, comparison_call.best_metrics) ]
  /\ UNCHANGED <<mode, iterations, last_day, pre_assignments, injected, preference_call,
                 multipliers_call, availability_call, overlap_call, engine_calls, environment,
                 optimizer_vars, attempt_vars, assistant_vars, progress_vars>>

NextComparison == call_is_schedule_better
SpecComparison == InitComparison /\ [][NextComparison]_vars

\* what the engine leaves in current_hours_dict, having computed the
\* projected hours of each pharmacist of the list for the shift:
\* projected_hours is a local, the dict is not written
hours_after_engine_projected(pharmacists_list, shift_type, current_hours_dict) ==
  [p \in DOMAIN current_hours_dict |->
     IF Contains(pharmacists_list, p)
     THEN current_hours_dict[p] + shift_types[shift_type].hours
     ELSE current_hours_dict[p]]

hours_after_engine(pharmacists_list, shift_type, current_hours_dict) == current_hours_dict

\* runs of either scheduler during which the eligibility engine is called,
\* besides the calls of the greedy pass, for the cell the pass is at
NoEngineCalls == [made |-> 0, available |-> <<>>]
InitEngine ==
  /\ \/ pharmacist_run_state({ShortMonthDays}, {1}, Modes, PreAssignmentInputs, {NoInjection}, "start")
        /\ assistant_idle
     \/ pharmacist_run_state({ShortMonthDays}, {1}, {"monthly"}, {<<>>}, {NoInjection}, "idle")
        /\ assistant_run_state /\ asst_iterations = 1
  /\ page_progress_bar
  /\ preference_call = NoCall
  /\ multipliers_call = NoCall
  /\ availability_call = NoCall
  /\ overlap_call = NoCall
  /\ comparison_call = NoCall
  /\ engine_calls = NoEngineCalls

names_of(packets) == [k \in 1..Len(packets) |-> packets[k].name]

call_get_available_pharmacists_optimized ==
  /\ pc = "shift"
  /\ engine_calls # NoCall
  /\ engine_calls.made < MaxEngineCalls
  /\ engine_calls' = [made |-> engine_calls.made + 1, available |-> names_of(available)]
  /\ pharmacist_hours' = hours_after_engine(shuffled_pharmacists, current_shift, pharmacist_hours)
  /\ UNCHANGED <<mode, iterations, last_day, pre_assignments, injected, preference_call, multipliers_call,
                 availability_call, overlap_call, comparison_call, environment, optimizer_vars,
                 schedule_dict, unfilled_info, pharmacists, pharmacist_consecutive_days,
                 pharmacist_weekend_work_count, shuffled_pharmacists, standard_shift_order,
                 problem_day_shift_order, processing_order_dates, date_idx, shift_idx,
                 assistant_vars, progress_vars>>

call_get_available_assistants ==
  /\ asst_pc \in {"problematic", "normal", "fallback"}
  /\ Len(asst_slots) > 0
  /\ engine_calls # NoCall
  /\ engine_calls.made < MaxEngineCalls
  /\ engine_calls' =
       [ made |-> engine_calls.made + 1,
         available |-> names_of(_get_available_assistants(asst_shuffled_assistants, asst_slots[1][1],
                                                          asst_slots[1][2], asst_schedule)) ]
  /\ UNCHANGED <<mode, iterations, last_day, pre_assignments, injected, preference_call, multipliers_call,
                 availability_call, overlap_call, comparison_call, environment, optimizer_vars,
                 attempt_vars, assistant_vars, progress_vars>>

NextEngine ==
  \/ NextBoth
  \/ call_get_available_pharmacists_optimized
  \/ call_get_available_assistants
SpecEngine == InitEngine /\ [][NextEngine]_vars

\* calls of check_time_overlap of either scheduler on the start and end
\* times of two shifts: datetime.time values, as <<hour, minute>>
TimeInputs == {<<0, 0>>, <<8, 0>>, <<16, 0>>, <<16, 30>>, <<23, 59>>}

InitOverlap ==
  /\ pharmacist_run_state({MonthDays}, {1}, {"monthly"}, {<<>>}, {NoInjection}, "idle")
  /\ assistant_idle
  /\ page_progress_bar
  /\ preference_call = NoCall
  /\ multipliers_call = NoCall
  /\ availability_call = NoCall
  /\ comparison_call = NoCall
  /\ engine_calls = NoCall
  /\ overlap_call \in [ scheduler : Schedulers, start1 : TimeInputs, end1 : TimeInputs,
                         start2 : TimeInputs, end2 : TimeInputs, returned : {FALSE}, result : {FALSE} ]

\* check_time_overlap of the scheduler named
overlap_answer(scheduler, start1, end1, start2, end2) ==
  IF scheduler = "PharmacistScheduler"
  THEN check_time_overlap(start1, end1, start2, end2)
  ELSE assistant_check_time_overlap(start1, end1, start2, end2)

call_check_time_overlap ==
  /\ overlap_call # NoCall
  /\ ~overlap_call.returned
  /\ overlap_call' =
       [ overlap_call EXCEPT
           !.returned = TRUE,
           !.result = overlap_answer(overlap_call.scheduler, overlap_call.start1, overlap_call.end1,
                                     overlap_call.start2, overlap_call.end2) ]
  /\ UNCHANGED <<mode, iterations, last_day, pre_assignments, injected, preference_call, multipliers_call,
                 availability_call, comparison_call, engine_calls, environment,
                 optimizer_vars, attempt_vars, assistant_vars, progress_vars>>

NextOverlap == call_check_time_overlap
SpecOverlap == InitOverlap /\ [][NextOverlap]_vars

---------------------------------------------------------------------------
(* Vocabulary of the properties *)

\* the schedules a run holds: the one of the attempt (current_schedule once
\* returned) and the best one kept
schedules == {schedule_dict, best_schedule}

\* the cell was filled by the loop over self.pre_assignments
pre_assigned_cell(date, shift_type) ==
  \E k \in 1..Len(pre_assignments) :
    /\ pre_assignments[k][1] \in PharmacistNames
    /\ pre_assignments[k][2] = date /\ date \in Dates
    /\ pre_assignments[k][3] = shift_type /\ shift_type \in ShiftCodeSet

\* the minutes a shift covers, counted from the midnight that starts its
\* date; an end before the start lies in the next day
covered_minutes(shift_type) ==
  LET first == shift_types[shift_type].start_time[1] * MINUTES_PER_HOUR
               + shift_types[shift_type].start_time[2]
      last == shift_types[shift_type].end_time[1] * MINUTES_PER_HOUR
              + shift_types[shift_type].end_time[2]
  IN IF last < first THEN first..(last + HOURS_PER_DAY * MINUTES_PER_HOUR - 1) ELSE first..(last - 1)

intervals_overlap(shift_1, shift_2) == covered_minutes(shift_1) \cap covered_minutes(shift_2) # {}

\* the loop over the dates has ended: schedule_dict is what the attempt returns
every_date_done == pc = "date" /\ date_idx > Len(processing_order_dates)

\* schedule_dict is the schedule an attempt returns
final_schedule == every_date_done \/ pc = "returned"

\* the hours of the cells the pharmacist holds
held_hours(schedule, pharmacist) ==
  LET held == {c \in (DOMAIN schedule) \X ShiftCodeSet : schedule[c[1]][c[2]] = pharmacist}
  IN SumOver([c \in held |-> shift_types[c[2]].hours], held)

\* the shifts the pharmacist holds on a date
held_shifts(schedule, pharmacist, date) ==
  IF date \in DOMAIN schedule
  THEN {held \in ShiftCodeSet : schedule[date][held] = pharmacist}
  ELSE {}

\* the pharmacist holds, on the date before, a shift whose
\* restricted_next_shifts names the shift
held_shift_restricts(schedule, pharmacist, date, shift_type) ==
  \E held \in held_shifts(schedule, pharmacist, date - 1) :
    \E k \in 1..Len(ShiftsSheet[held].RestrictedNextShifts) :
      ShiftsSheet[held].RestrictedNextShifts[k] = shift_type

has_skill(pharmacist, skill) ==
  \E k \in 1..Len(PharmacistsSheet[pharmacist].Skills) : PharmacistsSheet[pharmacist].Skills[k] = skill

is_junior(pharmacist) == has_skill(pharmacist, "junior")

\* another junior holds, on the date, a shift of the department of the shift
other_junior_in_department(schedule, pharmacist, date, shift_type) ==
  \E other \in PharmacistNames \ {pharmacist} : \E held \in ShiftCodeSet :
    /\ is_junior(other)
    /\ schedule[date][held] = other
    /\ get_department_from_shift(held) # None
    /\ get_department_from_shift(held) = get_department_from_shift(shift_type)

\* the cells of a category (Night, Mixing) the pharmacist holds
held_of_category(schedule, pharmacist, category) ==
  {c \in (DOMAIN schedule) \X ShiftCodeSet :
     schedule[c[1]][c[2]] = pharmacist /\ _get_shift_category(c[2]) = category}

\* the pharmacists in the mixing cells of a date, as a bag of cells
mixing_cells_of(schedule, date) ==
  {held \in ShiftCodeSet : startswith(held, "C8") /\ schedule[date][held] \in PharmacistNames}

\* every rule of the eligibility engine for the pharmacist and the cell, read
\* off a schedule in which the cell is open
satisfies_every_rule(schedule, pharmacist, date, shift_type) ==
  /\ date \notin PharmacistsSheet[pharmacist].Holidays
  /\ \A held \in held_shifts(schedule, pharmacist, date) \ {shift_type} :
       ~intervals_overlap(held, shift_type)
  /\ ~(is_junior(pharmacist) /\ other_junior_in_department(schedule, pharmacist, date, shift_type))
  /\ \A held \in held_shifts(schedule, pharmacist, date - 1) : ~is_night_shift(held)
  /\ \A k \in 1..Len(shift_types[shift_type].required_skills) :
       has_skill(pharmacist, shift_types[shift_type].required_skills[k])
  /\ held_hours(schedule, pharmacist) + shift_types[shift_type].hours
       <= pharmacists_data[pharmacist].max_hours
  /\ ~held_shift_restricts(schedule, pharmacist, date, shift_type)
  /\ \A limit \in ShiftLimitsSheet :
       (limit[1] = pharmacist /\ limit[2] = _get_shift_category(shift_type))
         => Cardinality(held_of_category(schedule, pharmacist, limit[2])) < limit[3]
  /\ is_night_shift(shift_type) =>
       /\ \A delta \in {-2, -1, 1, 2} :
            \A held \in held_shifts(schedule, pharmacist, date + delta) : ~is_night_shift(held)
       /\ held_shifts(schedule, pharmacist, date + 1) = {}
  /\ startswith(shift_type, "C8") =>
       3 * (Cardinality({held \in mixing_cells_of(schedule, date) \ {shift_type} :
                           has_skill(schedule[date][held], "mixing_expert")})
            + (IF has_skill(pharmacist, "mixing_expert") THEN 1 ELSE 0))
         >= 2 * (Cardinality(mixing_cells_of(schedule, date) \ {shift_type}) + 1)

\* the schedule with one cell open
without_cell(schedule, date, shift_type) == [schedule EXCEPT ![date][shift_type] = UNFILLED]

---------------------------------------------------------------------------
(* C1 *)

decides(date, shift_type) ==
  /\ pc = "shift"
  /\ schedule_dict' # schedule_dict
  /\ schedule_dict' = [schedule_dict EXCEPT ![date][shift_type] = schedule_dict'[date][shift_type]]

---------------------------------------------------------------------------
(* C2 *)

---------------------------------------------------------------------------
(* C3 *)

---------------------------------------------------------------------------
(* C4 *)

\* C4, as stated: in every final schedule, whatever the order in which the
\* dates were processed, no pharmacist holds a night shift on a date and any
\* shift on the next date.
C4_NoShiftAfterNight ==
  \A date \in DOMAIN schedule_dict : \A night, next_shift \in ShiftCodeSet :
    (/\ final_schedule
     /\ (date + 1) \in DOMAIN schedule_dict
     /\ is_night_shift(night)
     /\ schedule_dict[date][night] \in PharmacistNames)
    => schedule_dict[date + 1][next_shift] # schedule_dict[date][night]

\* C4, amended: in every final schedule, whatever the order in which the
\* dates were processed, a pharmacist holds a night shift on a date and a
\* shift on the next date only if both cells were pre-assigned.
C4_NoShiftAfterNightBesidesPreAssigned ==
  \A date \in DOMAIN schedule_dict : \A night, next_shift \in ShiftCodeSet :
    (/\ final_schedule
     /\ (date + 1) \in DOMAIN schedule_dict
     /\ is_night_shift(night)
     /\ schedule_dict[date][night] \in PharmacistNames
     /\ schedule_dict[date + 1][next_shift] = schedule_dict[date][night])
    => (pre_assigned_cell(date, night) /\ pre_assigned_cell(date + 1, next_shift))

\* a final schedule, built with a date processed before the date in front
\* of it, in which greedy picks filled the night shift of the earlier date and
\* a shift of the later one
C4_Witness ==
  /\ every_date_done
  /\ \E k_1, k_2 \in 1..Len(processing_order_dates) : \E night, next_shift \in ShiftCodeSet :
       LET date == processing_order_dates[k_2]
       IN /\ k_1 < k_2
          /\ processing_order_dates[k_1] = date + 1
          /\ is_night_shift(night)
          /\ schedule_dict[date][night] \in PharmacistNames
          /\ ~pre_assigned_cell(date, night)
          /\ schedule_dict[date + 1][next_shift] \in PharmacistNames
          /\ ~pre_assigned_cell(date + 1, next_shift)

---------------------------------------------------------------------------
(* C5 *)

\* what the eligibility engine returns for a cell, as a set of names
eligible_names(date, shift_type) ==
  LET available_pharmacists ==
        _get_available_pharmacists_optimized(shuffled_pharmacists, date, shift_type, schedule_dict,
                                             pharmacist_hours, pharmacist_consecutive_days,
                                             pharmacist_weekend_work_count, pharmacists)
  IN {available_pharmacists[k].name : k \in 1..Len(available_pharmacists)}

\* C5: while an attempt fills its schedule, the eligibility engine, asked
\* for any shift N2 on any date D + 1, does not return a pharmacist who holds
\* on D a shift whose restricted_next_shifts contains N2.
C5_RestrictedNextShiftExcluded ==
  pc = "shift" =>
    \A date \in DOMAIN schedule_dict : \A shift_type \in ShiftCodeSet :
      \A pharmacist \in PharmacistNames :
        held_shift_restricts(schedule_dict, pharmacist, date, shift_type)
          => pharmacist \notin eligible_names(date, shift_type)

\* the loop is at a cell for which the restricted sequence is the one check
\* that keeps a pharmacist out
C5_Witness ==
  /\ pc = "shift"
  /\ \E pharmacist \in PharmacistNames :
       /\ held_shift_restricts(schedule_dict, pharmacist, current_date, current_shift)
       /\ ~is_on_holiday(pharmacist, current_date)
       /\ ~has_overlapping_shift_optimized(pharmacist, current_date, current_shift, schedule_dict)
       /\ ~is_another_junior_in_same_department(pharmacist, current_date, current_shift, schedule_dict)
       /\ pharmacist \notin pharmacists_on_night_yesterday(current_date, schedule_dict)
       /\ has_required_skills(pharmacist, current_shift)
       /\ ~exceeds_max_hours(pharmacist, current_shift, pharmacist_hours)
       /\ ~reached_shift_limit(pharmacist, current_shift, pharmacists)

---------------------------------------------------------------------------
(* C6 *)

---------------------------------------------------------------------------
(* C7 *)

\* the ranking of two metrics: fewer unfilled shifts, then the smaller hour
\* imbalance, then the smaller weighted sum of the other three
rank_of(metrics) ==
  << metrics.unfilled_problem_shifts,
     metrics.hour_imbalance_penalty,
     WEIGHT_PREFERENCE * VarDen * metrics.preference_score
       + WEIGHT_NIGHT_VARIANCE * metrics.night_variance
       + WEIGHT_WEEKEND_OFF_VARIANCE * metrics.weekend_off_variance >>

ranks_better(metrics_1, metrics_2) ==
  LET r1 == rank_of(metrics_1)
      r2 == rank_of(metrics_2)
  IN \/ r1[1] < r2[1]
     \/ r1[1] = r2[1] /\ r1[2] < r2[2]
     \/ r1[1] = r2[1] /\ r1[2] = r2[2] /\ r1[3] < r2[3]

\* the attempt that has returned is one the optimizer ranks
attempt_is_ranked == pc = "returned" /\ ~(mode = "monthly" /\ Len(unfilled_info.other_days) > 0)

---------------------------------------------------------------------------
(* C8 *)

\* C8: with the same input and the same injected shuffled shift order and
\* shuffled pharmacist order, two runs of one iteration each end with the
\* same schedule.
C8_SameInjectedOrdersSameSchedule ==
  (/\ pc = "done"
   /\ first_run # NoRun
   /\ orders_are_injected)
  => best_schedule = first_run[1]

---------------------------------------------------------------------------
(* C9 *)

\* C9: once the cancellation flag is set, the optimizer starts no further
\* generation attempt.
C9_NoAttemptAfterStop ==
  [][ stop_generation => ~(pc = "loop" /\ pc' = "pre") ]_vars

---------------------------------------------------------------------------
(* C10 *)

\* the attempt that has returned left a shift unfilled on a day that is no
\* problem day
attempt_failed == pc = "returned" /\ Len(unfilled_info.other_days) > 0

---------------------------------------------------------------------------
(* C11 *)

\* the UNFILLED cells of a schedule
unfilled_cells(schedule) ==
  {c \in (DOMAIN schedule) \X ShiftCodeSet : schedule[c[1]][c[2]] = UNFILLED}

\* the cells an unfilled-shift report lists
reported_cells(info) ==
  {info.problem_days[k] : k \in 1..Len(info.problem_days)}
    \cup {info.other_days[k] : k \in 1..Len(info.other_days)}

\* no offered shift of the schedule was left undecided
is_complete(schedule) ==
  \A date \in DOMAIN schedule : \A shift_type \in ShiftCodeSet :
    schedule[date][shift_type] = NO_SHIFT => ~is_shift_available_on_date(shift_type, date)

\* C11: what the optimizer returns is no schedule at all, or a complete
\* schedule whose UNFILLED cells all lie on problem days and are exactly the
\* cells of the unfilled-shift list returned with it; a schedule with an
\* UNFILLED cell on a day that is no problem day is never returned.
C11_ReturnedScheduleIsConsistent ==
  pc = "done" =>
    \/ best_schedule = NoSchedule /\ reported_cells(best_unfilled_info) = {}
    \/ /\ best_schedule # NoSchedule
       /\ is_complete(best_schedule)
       /\ \A c \in unfilled_cells(best_schedule) : c[1] \in problem_days
       /\ reported_cells(best_unfilled_info) = unfilled_cells(best_schedule)

---------------------------------------------------------------------------
(* C12 *)

\* the eligibility engine returns nobody for the cell the loop is at, on a
\* day that is no problem day
nobody_on_other_day == pc = "shift" /\ Len(available) = 0 /\ current_date \notin problem_days

\* C12: when the eligibility engine returns nobody for an offered shift on a
\* day that is no problem day, the attempt marks the cell UNFILLED and returns
\* at once, and the optimizer drops the attempt: it never becomes the best
\* schedule.
C12_HardFailureAbortsAttempt ==
  [][ /\ nobody_on_other_day =>
           /\ schedule_dict'[current_date][current_shift] = UNFILLED
           /\ pc' = "returned"
      /\ attempt_failed => UNCHANGED <<best_schedule, best_metrics, best_unfilled_info>>
    ]_vars

---------------------------------------------------------------------------
(* C13 *)

\* the eligibility engine returns nobody for the cell the loop is at, on a
\* problem day
nobody_on_problem_day == pc = "shift" /\ Len(available) = 0 /\ current_date \in problem_days

\* the text is a list of one to three numbered suggestions, each naming a
\* pharmacist with an availability note
is_ranked_suggestions(text) ==
  /\ Len(text) \in 1..MAX_SUGGESTIONS
  /\ \A k \in 1..Len(text) :
       /\ Len(text[k]) = 3
       /\ text[k][1] = k
       /\ text[k][2] \in PharmacistNames
       /\ text[k][3] \in {AVAILABLE, ON_HOLIDAY}

\* the text is the message that says nobody can be suggested
is_no_candidate_message(text) == text = << <<NO_SUITABLE_CANDIDATE>> >>

\* the rows of the sheet that are about the cell
negotiation_rows(sheet, date, shift_type) ==
  {k \in 1..Len(sheet) : Len(sheet[k]) = 3 /\ sheet[k][1] = date /\ sheet[k][2] = shift_type}

\* fill_slots of AssistantScheduler is at a slot of a problematic date that
\* nobody can take
no_assistant_on_problematic_date ==
  /\ asst_pc = "problematic"
  /\ Len(asst_slots) > 0
  /\ Len(_get_available_assistants(asst_shuffled_assistants, asst_slots[1][1], asst_slots[1][2],
                                   asst_schedule)) = 0

\* the entries of the suggestions that are about the cell
suggestion_entries(suggestions, date, shift_type) ==
  {k \in 1..Len(suggestions) : suggestions[k].date = date /\ suggestions[k].shift = shift_type}

assistant_gap_negotiated ==
  /\ asst_suggestions # NoSheet
  /\ asst_attempt < max_attempts
  /\ \E k \in 1..Len(asst_suggestions) :
       asst_suggestions[k].date \in asst_problematic_dates /\ asst_suggestions[k].suggestion \in AssistantNames
  /\ \E k \in 1..Len(asst_suggestions) :
       /\ asst_suggestions[k].date \in asst_problematic_dates
       /\ asst_suggestions[k].suggestion = NO_ELIGIBLE_ASSISTANT

---------------------------------------------------------------------------
(* C14 *)

\* what the assignment branch of the greedy pass does to the schedule and the
\* run counters when it gives the cell to the pharmacist
pick_effect(st, pharmacist, date, shift_type) ==
  [ schedule_dict |-> [st.schedule_dict EXCEPT ![date][shift_type] = pharmacist],
    pharmacists |-> _update_shift_counts(st.pharmacists, pharmacist, shift_type),
    pharmacist_hours |-> [st.pharmacist_hours EXCEPT ![pharmacist] = @ + shift_types[shift_type].hours],
    pharmacist_weekend_work_count |->
      IF weekday(date) >= SATURDAY
      THEN [st.pharmacist_weekend_work_count EXCEPT ![pharmacist] = @ + 1]
      ELSE st.pharmacist_weekend_work_count ]

\* the pre-assignment rows from the k-th on, each applied as a greedy pick of
\* the same pharmacist, date and shift would be
RECURSIVE pre_assignments_as_picks(_, _, _)
pre_assignments_as_picks(rows, k, st) ==
  IF k > Len(rows) THEN st
  ELSE IF rows[k][1] \notin PharmacistNames \/ rows[k][2] \notin DOMAIN st.schedule_dict
          \/ rows[k][3] \notin ShiftCodeSet
       THEN pre_assignments_as_picks(rows, k + 1, st)
       ELSE pre_assignments_as_picks(rows, k + 1, pick_effect(st, rows[k][1], rows[k][2], rows[k][3]))

\* the schedule and counters of the attempt
run_counters ==
  [ schedule_dict |-> schedule_dict, pharmacists |-> pharmacists, pharmacist_hours |-> pharmacist_hours,
    pharmacist_weekend_work_count |-> pharmacist_weekend_work_count ]

\* no cell of the schedule is decided
nothing_decided == \A date \in DOMAIN schedule_dict : \A shift_type \in ShiftCodeSet :
  schedule_dict[date][shift_type] = NO_SHIFT

\* the greedy pass is at a cell
greedy_pass_runs == pc = "shift"

\* C14: in every attempt the pre-assignments are applied while no cell is
\* decided, the greedy pass runs only after them, and applying them leaves
\* the schedule and every run counter - total hours, night-shift count,
\* mixing-shift count, category counts and weekend-shift count - at the value
\* that greedy picks of the same (pharmacist, date, shift) would have produced.
C14_PreAssignmentCountsAsPick ==
  [][ /\ pc = "pre" =>
           /\ nothing_decided
           /\ run_counters' = pre_assignments_as_picks(pre_assignments, 1, run_counters)
      /\ greedy_pass_runs' => pc \in {"date", "shift"}
    ]_vars

\* the same for every counter but the weekend-shift count
C14_CountersButWeekend ==
  [][ /\ pc = "pre" =>
           /\ nothing_decided
           /\ LET picked == pre_assignments_as_picks(pre_assignments, 1, run_counters)
              IN /\ schedule_dict' = picked.schedule_dict
                 /\ pharmacists' = picked.pharmacists
                 /\ pharmacist_hours' = picked.pharmacist_hours
      /\ greedy_pass_runs' => pc \in {"date", "shift"}
    ]_vars

---------------------------------------------------------------------------
(* C15 *)

\* the suitability score the negotiator gives the pharmacist for the cell,
\* times MultiplierDen
negotiation_score(schedule, pharmacist, date, shift_type) ==
  (W_CONSECUTIVE * count_consecutive_shifts(pharmacist, date, schedule, MAX_DAYS)
                 * count_consecutive_shifts(pharmacist, date, schedule, MAX_DAYS)
   + W_HOURS * held_hours(schedule, pharmacist)
   + W_PREFERENCE * get_preference_score(pharmacist, shift_type)) * MultiplierDen

\* the names the text suggests, in its order
suggested_names(text) == IF is_no_candidate_message(text) THEN <<>> ELSE [k \in 1..Len(text) |-> text[k][2]]

\* the pharmacist is ranked no later than the other: not on holiday before
\* on holiday, and by ascending score among equals
precedes(schedule, date, shift_type, first, second) ==
  LET first_off == date \in PharmacistsSheet[first].Holidays
      second_off == date \in PharmacistsSheet[second].Holidays
  IN \/ ~first_off /\ second_off
     \/ /\ first_off = second_off
        /\ negotiation_score(schedule, first, date, shift_type)
             <= negotiation_score(schedule, second, date, shift_type)

\* the suggestions of a row of the sheet are as the claim says
pharmacist_suggestions_in_order(schedule, row) ==
  LET date == row[1]
      shift_type == row[2]
      names == suggested_names(row[3])
  IN /\ Len(names) <= MAX_SUGGESTIONS
     /\ \A k \in 1..Len(names) :
          /\ \A skill \in Range0(ShiftsSheet[shift_type].RequiredSkills) :
               Contains(PharmacistsSheet[names[k]].Skills, skill)
          /\ held_shifts(schedule, names[k], date) = {}
     /\ \A k \in 1..Len(names) : \A j \in (k + 1)..Len(names) :
          precedes(schedule, date, shift_type, names[k], names[j])

\* the negotiation sheet of the pharmacists is as the claim says
pharmacist_sheet_as_claimed ==
  ws_negotiate # NoSheet =>
    /\ \A c \in unfilled_cells(best_schedule) : negotiation_rows(ws_negotiate, c[1], c[2]) # {}
    /\ \A k \in 1..Len(ws_negotiate) :
         Len(ws_negotiate[k]) = 3 => pharmacist_suggestions_in_order(best_schedule, ws_negotiate[k])

\* the suggestions for the assistants are as the claim says: one entry for
\* every UNFILLED cell, and the assistant an entry names has every required
\* skill of the shift and holds no shift on the date (an entry names at most
\* one assistant, so that its order is as claimed)
assistant_suggestions_as_claimed ==
  asst_suggestions # NoSheet =>
    /\ \A date \in DOMAIN asst_best_schedule : \A shift_type \in AssistantShiftCodeSet :
         asst_best_schedule[date][shift_type] = UNFILLED =>
           \E k \in 1..Len(asst_suggestions) :
             asst_suggestions[k].date = date /\ asst_suggestions[k].shift = shift_type
    /\ \A k \in 1..Len(asst_suggestions) :
         asst_suggestions[k].suggestion \in AssistantNames =>
           /\ \A skill \in Range0(AssistantShiftsSheet[asst_suggestions[k].shift].RequiredSkills) :
                Contains(AssistantsSheet[asst_suggestions[k].suggestion].Skills, skill)
           /\ \A shift_type \in AssistantShiftCodeSet :
                asst_best_schedule[asst_suggestions[k].date][shift_type] # asst_suggestions[k].suggestion

\* C15: for every UNFILLED cell of the final schedule the negotiator suggests
\* at most three workers; every worker suggested has every required skill of
\* the shift and holds no shift on the date of the cell; and the suggestions
\* are in order: those not on holiday that date before those on holiday, and
\* by ascending suitability score in each group.
C15_NegotiatorSuggestions == pharmacist_sheet_as_claimed /\ assistant_suggestions_as_claimed

---------------------------------------------------------------------------
(* C16 *)

\* the UNFILLED cells of a schedule of the assistants that lie on a
\* problematic date
unfilled_on_problematic_dates(schedule) ==
  Cardinality({c \in (DOMAIN schedule) \X AssistantShiftCodeSet :
                 schedule[c[1]][c[2]] = UNFILLED /\ c[1] \in asst_problematic_dates})

\* the comparison of PharmacistScheduler is decided by the unfilled count
\* whenever the counts differ
pharmacist_comparison_is_lexicographic ==
  (pc = "returned" /\ best_schedule # NoSchedule /\ ~(mode = "monthly" /\ attempt_failed)) =>
    /\ Len(unfilled_info.problem_days) < Len(best_unfilled_info.problem_days)
         => is_schedule_better(current_metrics, best_metrics)
    /\ Len(unfilled_info.problem_days) > Len(best_unfilled_info.problem_days)
         => ~is_schedule_better(current_metrics, best_metrics)

\* the comparison of AssistantScheduler is decided by the unfilled count
\* whenever the counts differ
assistant_comparison_is_lexicographic ==
  (asst_pc = "returned" /\ asst_best_schedule # NoSchedule) =>
    LET judged_better ==
          assistant_is_schedule_better(assistant_calculate_schedule_metrics(asst_schedule), asst_best_metrics)
    IN /\ unfilled_on_problematic_dates(asst_schedule) < unfilled_on_problematic_dates(asst_best_schedule)
            => judged_better
       /\ unfilled_on_problematic_dates(asst_schedule) > unfilled_on_problematic_dates(asst_best_schedule)
            => ~judged_better

\* C16: whenever the optimizer compares the schedule of an attempt with the
\* best schedule so far, a schedule with strictly fewer UNFILLED cells on
\* problem days is judged better and one with strictly more is not, whatever
\* the other metrics are.
C16_UnfilledCountDecides == pharmacist_comparison_is_lexicographic /\ assistant_comparison_is_lexicographic

---------------------------------------------------------------------------
(* C17: progress reporting is a side channel *)

\* what a step may do to the bar: nothing, or show a new value on a bar that
\* exists
bar_untouched == UNCHANGED progress_vars
\* the step, as far as the scheduling state goes, is a step of the run made
\* with the bar given
scheduling_step(bar) ==
  \/ generate_next_date_outcome(bar)
  \/ assistant_next_iteration_outcome(bar)
  \/ bar_untouched

\* C17: every step of a run, taken with a progress bar or with none, changes
\* the scheduling state (schedule, unfilled list, counters, position, random
\* orders) exactly as the same step does with the other choice of bar: with
\* the same input and the same random choices the two runs go through the
\* same scheduling states and return the same schedule and unfilled list.
C17_ProgressIsSideChannel ==
  [][ /\ \A bar \in ProgressBars : scheduling_step(bar)
      /\ progress_bar' = progress_bar
      /\ progress_bar = NoProgressBar => progress' = NothingShown ]_vars

\* a run made without a bar has returned a schedule with an unfilled shift,
\* and nothing was shown
C17_Witness ==
  /\ progress_bar = NoProgressBar
  /\ progress = NothingShown
  /\ pc = "done"
  /\ best_schedule # NoSchedule
  /\ Len(best_unfilled_info.problem_days) + Len(best_unfilled_info.other_days) > 0

\* the same for AssistantScheduler
assistant_run_without_bar ==
  /\ progress_bar = NoProgressBar
  /\ progress = NothingShown
  /\ asst_pc = "done"
  /\ asst_best_schedule # NoSchedule
  /\ unfilled_on_problematic_dates(asst_best_schedule) > 0

\* the same run made with the bar: the bar shows the last report
run_with_bar_reported ==
  /\ progress_bar = opt_progress_bar
  /\ \/ pc = "done" /\ best_schedule # NoSchedule /\ progress # st_progress(progress_bar)
     \/ asst_pc = "done" /\ asst_best_schedule # NoSchedule /\ progress.value = <<asst_iterations, asst_iterations>>

---------------------------------------------------------------------------
(* C18: night shifts of one worker are more than two days apart *)

\* the cell was written from a row of the PreAssignments sheet
pharmacist_cell_is_pre_assigned(name, date, shift) ==
  \E k \in DOMAIN pre_assignments : pre_assignments[k] = <<name, date, shift>>
assistant_cell_is_pre_assigned(name, date, shift) ==
  \E k \in DOMAIN asst_pre_assignments : asst_pre_assignments[k] = <<name, date, shift>>

\* the night cells <<date, shift>> a name holds in a schedule
pharmacist_night_cells(schedule, name) ==
  {c \in (DOMAIN schedule) \X ShiftCodeSet : is_night_shift(c[2]) /\ schedule[c[1]][c[2]] = name}
assistant_night_cells(schedule, name) ==
  {c \in (DOMAIN schedule) \X AssistantShiftCodeSet :
     assistant_is_night_shift(c[2]) /\ schedule[c[1]][c[2]] = name}

days_apart(c1, c2) == IF c1[1] >= c2[1] THEN c1[1] - c2[1] ELSE c2[1] - c1[1]

\* no name holds two night cells 1 or 2 days apart of which one was picked
\* greedily
pharmacist_nights_are_apart(schedule) ==
  \A name \in PharmacistNames :
    \A c1, c2 \in pharmacist_night_cells(schedule, name) :
      (days_apart(c1, c2) \in 1..2) =>
        /\ pharmacist_cell_is_pre_assigned(name, c1[1], c1[2])
        /\ pharmacist_cell_is_pre_assigned(name, c2[1], c2[2])
assistant_nights_are_apart(schedule) ==
  \A name \in AssistantNames :
    \A c1, c2 \in assistant_night_cells(schedule, name) :
      (days_apart(c1, c2) \in 1..2) =>
        /\ assistant_cell_is_pre_assigned(name, c1[1], c1[2])
        /\ assistant_cell_is_pre_assigned(name, c2[1], c2[2])

\* the names of the candidates for the cell being filled
available_names == {available[k].name : k \in DOMAIN available}

\* C18: in the schedule being built and in the best schedule kept, of
\* either scheduler and in whatever order the dates are processed, no worker
\* holds night shifts on two dates 1 or 2 days apart unless both cells come
\* from the PreAssignments sheet; and a worker with a night shift on date-2,
\* date-1, date+1 or date+2 is not among the candidates for a night shift on
\* date.
C18_NightsApart ==
  /\ pharmacist_nights_are_apart(schedule_dict)
  /\ pharmacist_nights_are_apart(best_schedule)
  /\ assistant_nights_are_apart(asst_schedule)
  /\ assistant_nights_are_apart(asst_best_schedule)
  /\ (pc = "shift" /\ is_night_shift(current_shift)) =>
        \A name \in available_names :
          \A c \in pharmacist_night_cells(schedule_dict, name) : days_apart(c, <<current_date>>) \notin 1..2
  /\ (asst_pc \in {"problematic", "normal", "fallback"} /\ asst_slots # <<>> /\ assistant_is_night_shift(asst_slots[1][2])) =>
        \A name \in AssistantNames :
          (\E c \in assistant_night_cells(asst_schedule, name) : days_apart(c, asst_slots[1]) \in 1..2)
            => ~check_assistant_availability(name, asst_slots[1][1], asst_slots[1][2], asst_schedule)

\* a night shift is being filled on a date processed after a later date, and
\* a pharmacist who was picked for a night shift one or two days later is
\* not a candidate; the day before the date they hold no night shift
C18_Witness ==
  /\ pc = "shift"
  /\ is_night_shift(current_shift)
  /\ \E name \in PharmacistNames \ available_names :
       /\ \E c \in pharmacist_night_cells(schedule_dict, name) :
            /\ c[1] - current_date \in 1..2
            /\ ~pharmacist_cell_is_pre_assigned(name, c[1], c[2])
       /\ \A c \in pharmacist_night_cells(schedule_dict, name) : c[1] > current_date
       /\ current_date \notin pharmacists_data[name].holidays

\* the same in a run of AssistantScheduler
assistant_night_denied ==
  /\ asst_pc \in {"problematic", "normal", "fallback"}
  /\ asst_slots # <<>>
  /\ assistant_is_night_shift(asst_slots[1][2])
  /\ \E name \in AssistantNames :
       \E c \in assistant_night_cells(asst_schedule, name) :
         /\ days_apart(c, asst_slots[1]) \in 1..2
         /\ ~assistant_cell_is_pre_assigned(name, c[1], c[2])

---------------------------------------------------------------------------
(* C19: two thirds of the workers on mixing shifts are mixing experts *)

\* the mixing cells of a date that hold a worker
mixing_cells_held(schedule, date) ==
  {s \in ShiftCodeSet : startswith(s, "C8") /\ schedule[date][s] \notin EmptyCells}
mixing_experts_held(schedule, date) ==
  {s \in mixing_cells_held(schedule, date) :
     /\ schedule[date][s] \in PharmacistNames
     /\ Contains(pharmacists_data[schedule[date][s]].skills, "mixing_expert")}
\* experts / total >= 2/3
two_thirds_are_experts(schedule, date) ==
  3 * Cardinality(mixing_experts_held(schedule, date)) >= 2 * Cardinality(mixing_cells_held(schedule, date))

\* C19: a greedy assignment of a mixing shift (code prefix C8) leaves, on
\* its date, at least two thirds of the workers on mixing shifts with the
\* skill mixing_expert; and no candidate for a mixing shift would, once
\* assigned, leave fewer.
C19_MixingExpertRatio ==
  [][ /\ (generate_assign /\ startswith(current_shift, "C8"))
           => two_thirds_are_experts(schedule_dict', current_date)
      /\ (pc = "shift" /\ startswith(current_shift, "C8"))
           => \A name \in available_names :
                two_thirds_are_experts([schedule_dict EXCEPT ![current_date][current_shift] = name],
                                       current_date) ]_vars

\* a worker with the skills of the shift who is free that day and the day
\* before, and not a mixing expert
free_non_expert(schedule, date, shift) ==
  \E name \in PharmacistNames :
    /\ ~Contains(pharmacists_data[name].skills, "mixing_expert")
    /\ \A k \in DOMAIN shift_types[shift].required_skills :
         Contains(pharmacists_data[name].skills, shift_types[shift].required_skills[k])
    /\ date \notin pharmacists_data[name].holidays
    /\ \A d \in {date - 1, date} \cap DOMAIN schedule : \A s \in ShiftCodeSet : schedule[d][s] # name

\* both mixing shifts of a date were given to experts by greedy picks while
\* a worker with the mixing skill who is no expert stayed free
C19_Witness ==
  /\ schedule_dict # NoSchedule
  /\ pre_assignments = <<>>
  /\ \E date \in DOMAIN schedule_dict :
       /\ Cardinality(mixing_cells_held(schedule_dict, date)) = 2
       /\ Cardinality(mixing_experts_held(schedule_dict, date)) = 2
       /\ free_non_expert(schedule_dict, date, "C8-1")

---------------------------------------------------------------------------
(* C20: the caps of the ShiftLimits sheet *)

ShiftCategories == {"Night", "Mixing"}
category_count(self_pharmacists, name, category) == self_pharmacists[name].category_counts[category]

\* C20: a pharmacist with a cap on the category of the shift being filled
\* is among the candidates only while their running count for the category,
\* which includes the pre-assigned shifts, is strictly below the cap; and a
\* greedy pick never takes the count of a capped category above its cap.
C20_CapBoundsEligibility ==
  [][ /\ (pc = "shift" /\ _get_shift_category(current_shift) # None) =>
           \A name \in available_names :
             has_shift_limit(name, _get_shift_category(current_shift)) =>
               category_count(pharmacists, name, _get_shift_category(current_shift))
                 < shift_limit(name, _get_shift_category(current_shift))
      /\ generate_assign =>
           \A name \in PharmacistNames : \A category \in ShiftCategories :
             (/\ has_shift_limit(name, category)
              /\ category_count(pharmacists', name, category) > category_count(pharmacists, name, category))
               => category_count(pharmacists', name, category) <= shift_limit(name, category) ]_vars

\* a mixing shift is being filled on a day on which A, whose cap of one
\* mixing shift was used up by a pre-assignment two days before, is free,
\* and A is not among the candidates while others are
C20_Witness ==
  /\ pc = "shift"
  /\ startswith(current_shift, "C8")
  /\ has_shift_limit("A", "Mixing")
  /\ category_count(pharmacists, "A", "Mixing") = shift_limit("A", "Mixing")
  /\ "A" \notin available_names
  /\ available_names # {}
  /\ current_date \notin pharmacists_data["A"].holidays
  /\ \A d \in {current_date - 1, current_date, current_date + 1} \cap DOMAIN schedule_dict :
       \A s \in ShiftCodeSet : schedule_dict[d][s] # "A"

---------------------------------------------------------------------------
(* C21: the required skills of a shift *)

\* the cells of the sheets, before any parsing
sheet_required_skills(shift_type) == Range0(ShiftsSheet[shift_type].RequiredSkills)
sheet_skills(pharmacist) == Range0(PharmacistsSheet[pharmacist].Skills)
assistant_sheet_required_skills(shift_type) == Range0(AssistantShiftsSheet[shift_type].RequiredSkills)
assistant_sheet_skills(assistant) == Range0(AssistantsSheet[assistant].Skills)

\* the assistants check_assistant_availability accepts for the first slot
assistants_accepted ==
  {a \in AssistantNames :
     check_assistant_availability(a, asst_slots[1][1], asst_slots[1][2], asst_schedule)}

filling_a_slot == asst_pc \in {"problematic", "normal", "fallback"} /\ Len(asst_slots) > 0

\* every candidate has every required skill of the shift
candidates_have_required_skills ==
  /\ pc = "shift" =>
       \A name \in available_names : sheet_required_skills(current_shift) \subseteq sheet_skills(name)
  /\ filling_a_slot =>
       \A a \in assistants_accepted :
         assistant_sheet_required_skills(asst_slots[1][2]) \subseteq assistant_sheet_skills(a)

\* a shift without required skills passes everybody on skill grounds
empty_requirement_excludes_nobody ==
  /\ (pc = "shift" /\ sheet_required_skills(current_shift) = {}) =>
       \A name \in PharmacistNames : has_required_skills(name, current_shift)
  /\ (filling_a_slot /\ assistant_sheet_required_skills(asst_slots[1][2]) = {}) =>
       \A a \in AssistantNames :
         ~(Len(required_of(asst_slots[1][2])) > 0
           /\ ~(\A k \in 1..Len(required_of(asst_slots[1][2])) :
                  Contains(assistants_data[a].skills, required_of(asst_slots[1][2])[k])))

\* C21: a worker is among the candidates for a shift only if every required
\* skill of the shift is among the worker's skills, and a shift whose
\* Required Skills cell is empty excludes no worker on skill grounds.
C21_SkillsDecideEligibility ==
  /\ candidates_have_required_skills
  /\ empty_requirement_excludes_nobody

---------------------------------------------------------------------------
(* C22: holidays *)

\* the cells of a schedule in which a name works on a holiday of theirs
pharmacist_holiday_cells(schedule) ==
  {c \in (DOMAIN schedule) \X ShiftCodeSet :
     /\ schedule[c[1]][c[2]] \in PharmacistNames
     /\ c[1] \in pharmacists_data[schedule[c[1]][c[2]]].holidays}
assistant_holiday_cells(schedule) ==
  {c \in (DOMAIN schedule) \X AssistantShiftCodeSet :
     /\ schedule[c[1]][c[2]] \in AssistantNames
     /\ c[1] \in assistants_data[schedule[c[1]][c[2]]].holidays}

\* C22: in the schedule being built and in the best schedule kept, of either
\* scheduler, a worker holds a shift on a date of their holidays only in a
\* cell written from the PreAssignments sheet: the greedy pass never picks a
\* worker for a date that is in the worker's holidays.
C22_NoPickOnHoliday ==
  /\ \A schedule \in {schedule_dict, best_schedule} : \A c \in pharmacist_holiday_cells(schedule) :
       pharmacist_cell_is_pre_assigned(schedule[c[1]][c[2]], c[1], c[2])
  /\ \A schedule \in {asst_schedule, asst_best_schedule} : \A c \in assistant_holiday_cells(schedule) :
       assistant_cell_is_pre_assigned(schedule[c[1]][c[2]], c[1], c[2])
  /\ pc = "shift" => \A name \in available_names : current_date \notin pharmacists_data[name].holidays
  /\ filling_a_slot => \A a \in assistants_accepted : asst_slots[1][1] \notin assistants_data[a].holidays

\* a shift is being filled on a holiday of a pharmacist who has the skills
\* of the shift and works neither that day nor the days next to it, and who
\* is not among the candidates while others are
C22_Witness ==
  /\ pc = "shift"
  /\ available_names # {}
  /\ \E name \in PharmacistNames \ available_names :
       /\ current_date \in pharmacists_data[name].holidays
       /\ has_required_skills(name, current_shift)
       /\ \A d \in {current_date - 1, current_date, current_date + 1} \cap DOMAIN schedule_dict :
            \A s \in ShiftCodeSet : schedule_dict[d][s] # name

\* the same for an assistant
assistant_on_holiday_denied ==
  /\ filling_a_slot
  /\ assistants_accepted # {}
  /\ \E a \in AssistantNames \ assistants_accepted :
       /\ asst_slots[1][1] \in assistants_data[a].holidays
       /\ \A d \in {asst_slots[1][1] - 1, asst_slots[1][1], asst_slots[1][1] + 1} \cap DOMAIN asst_schedule :
            \A s \in AssistantShiftCodeSet : asst_schedule[d][s] # a

---------------------------------------------------------------------------
(* C23: the problem days *)

\* the workers whose Holidays cell does not hold the date, and the shifts
\* offered on the date
pharmacists_not_on_holiday(date) == {p \in PharmacistNames : date \notin PharmacistsSheet[p].Holidays}
shifts_offered(date) == {st \in ShiftCodeSet : is_shift_available_on_date(st, date)}
assistants_not_on_holiday(date) == {a \in AssistantNames : date \notin AssistantsSheet[a].Holidays}
assistant_shifts_offered(date) ==
  {st \in AssistantShiftCodeSet : assistant_is_shift_available_on_date(st, date)}

\* C23: from the staffing check on, all through the iterations and their
\* attempts, the problem days of a run are exactly the dates of the horizon
\* on which the workers not on holiday are fewer than the shifts offered
\* plus 3.
C23_ProblemDaysAreFixed ==
  /\ pc \notin {"idle", "start"} =>
       problem_days = {date \in Dates :
                         Cardinality(pharmacists_not_on_holiday(date))
                           < Cardinality(shifts_offered(date)) + STAFF_BUFFER}
  /\ asst_pc \notin {"idle", "start"} =>
       asst_problematic_dates = {date \in AssistantDates :
                                   Cardinality(assistants_not_on_holiday(date))
                                     < Cardinality(assistant_shifts_offered(date)) + ASSISTANT_STAFF_BUFFER}

\* a pharmacist run in which some dates are problem days and others are
\* not, at a pick on a date that is no problem day, made after the problem
\* days were done
C23_Witness ==
  /\ pc = "shift"
  /\ problem_days # {}
  /\ current_date \notin problem_days
  /\ \E date \in problem_days : \E s \in ShiftCodeSet : schedule_dict[date][s] \in PharmacistNames

\* a later iteration of an assistant run with dates of both kinds
assistant_problematic_dates_kept ==
  /\ asst_pc = "normal"
  /\ asst_i > 1
  /\ asst_problematic_dates # {}
  /\ asst_problematic_dates # AssistantDates

---------------------------------------------------------------------------
(* C24: problem days before the other days *)

\* the dates the pharmacist attempt has still to process after the current one
dates_to_come == {processing_order_dates[k] : k \in (date_idx + 1)..Len(processing_order_dates)}

\* the dates of the slots the assistant pass has still to decide after the first
slot_dates_to_come == {asst_slots[k][1] : k \in 2..Len(asst_slots)}

\* a decision on a date that is no problem day comes after every decision
\* on a problem day: the pharmacist passes
pharmacist_problem_days_first ==
  (pc = "shift" /\ current_date \notin problem_days) => dates_to_come \cap problem_days = {}

\* the same in the attempts of generate_schedule
assistant_attempt_problem_days_first ==
  (asst_pc \in {"problematic", "normal"} /\ Len(asst_slots) > 0
     /\ asst_slots[1][1] \notin asst_problematic_dates)
    => (slot_dates_to_come \cup {slot[1] : slot \in Range0(asst_normal_slots)}) \cap asst_problematic_dates = {}

\* the same in _final_fallback_generation
assistant_fallback_problem_days_first ==
  (asst_pc = "fallback" /\ Len(asst_slots) > 0 /\ asst_slots[1][1] \notin asst_problematic_dates)
    => slot_dates_to_come \cap asst_problematic_dates = {}

\* C24: within one greedy pass over the horizon, every decision for a shift
\* on a problem day is made before any decision for a shift on a date that
\* is no problem day.
C24_ProblemDaysFirst ==
  /\ pharmacist_problem_days_first
  /\ assistant_attempt_problem_days_first
  /\ assistant_fallback_problem_days_first

\* what holds of the passes other than the fallback
C24_ProblemDaysFirstInAttempts ==
  /\ pharmacist_problem_days_first
  /\ assistant_attempt_problem_days_first

---------------------------------------------------------------------------
(* C25: the order of the shifts of one date *)

\* the group of a shift: night shifts, then mixing shifts (C8), then care
\* shifts (Care), then the others
shift_group(shift_type, is_night) ==
  IF is_night THEN "night"
  ELSE IF startswith(shift_type, "C8") THEN "mixing"
  ELSE IF startswith(shift_type, "Care") THEN "care"
  ELSE "other"

\* the place of a group in the order of a problem day and of another day
group_place(group, is_problem_day) ==
  IF is_problem_day
  THEN CASE group = "mixing" -> 1 [] group = "care" -> 2 [] group = "night" -> 3 [] OTHER -> 4
  ELSE CASE group = "night" -> 1 [] group = "mixing" -> 2 [] group = "care" -> 3 [] OTHER -> 4

pharmacist_shift_place(shift_type, date) ==
  group_place(shift_group(shift_type, is_night_shift(shift_type)), date \in problem_days)

assistant_shift_place(shift_type, date) ==
  group_place(shift_group(shift_type, assistant_is_night_shift(shift_type)), date \in asst_problematic_dates)

\* no shift still to process on the date is of a group placed before the
\* group of the shift being decided: the pharmacist passes
pharmacist_shifts_in_group_order ==
  pc = "shift" =>
    \A j \in (shift_idx + 1)..Len(shifts_to_process) :
      pharmacist_shift_place(shifts_to_process[j], current_date)
        >= pharmacist_shift_place(current_shift, current_date)

\* the same for the slots of the date the assistant pass has still to decide
assistant_shifts_in_group_order ==
  (asst_pc \in {"problematic", "normal"} /\ Len(asst_slots) > 0) =>
    \A slot \in {asst_slots[k] : k \in 2..Len(asst_slots)} \cup Range0(asst_normal_slots) :
      slot[1] = asst_slots[1][1] =>
        assistant_shift_place(slot[2], slot[1]) >= assistant_shift_place(asst_slots[1][2], asst_slots[1][1])

\* C25: within one date the shifts are decided group by group: mixing, care,
\* night, others on a problem day, and night, mixing, care, others on
\* another day; a shuffle changes the order inside a group only.
C25_ShiftsInGroupOrder ==
  /\ pharmacist_shifts_in_group_order
  /\ assistant_shifts_in_group_order

---------------------------------------------------------------------------
(* C26: the night before a problem day *)

\* the key (night_count, suitability score) of a candidate of a night shift
night_key(candidate, date) ==
  <<candidate.night_count, _calculate_suitability_score(candidate, weekday(date) >= SATURDAY)>>

\* the candidates of the list who are on holiday on the date
off_on(candidates, date) ==
  {candidates[k] : k \in {j \in DOMAIN candidates : date \in pharmacists_data[candidates[j].name].holidays}}

\* the candidate of the list with the name
candidate_named(candidates, name) == candidates[CHOOSE k \in DOMAIN candidates : candidates[k].name = name]

\* the pick for a night shift on the eve of a problem day, some candidate
\* being off on the problem day: the pharmacist passes
pharmacist_off_tomorrow_is_picked ==
  (/\ generate_assign
   /\ is_night_shift(current_shift)
   /\ (current_date + 1) \in problem_days
   /\ off_on(available, current_date + 1) # {})
    => /\ schedule_dict'[current_date][current_shift]
            \in {x.name : x \in off_on(available, current_date + 1)}
       /\ \A x \in off_on(available, current_date + 1) :
            ~key_less(night_key(x, current_date),
                      night_key(candidate_named(available, schedule_dict'[current_date][current_shift]),
                                current_date))

\* the assistants available for the first slot
assistants_available ==
  LET available_assistants ==
        _get_available_assistants(asst_shuffled_assistants, asst_slots[1][1], asst_slots[1][2], asst_schedule)
  IN {available_assistants[k].name : k \in DOMAIN available_assistants}

\* the same for the picks of the assistant passes
assistant_off_tomorrow_is_picked ==
  (/\ filling_a_slot
   /\ assistant_is_night_shift(asst_slots[1][2])
   /\ (asst_slots[1][1] + 1) \in asst_problematic_dates
   /\ \E a \in assistants_available : (asst_slots[1][1] + 1) \in assistants_data[a].holidays
   /\ asst_schedule'[asst_slots[1][1]][asst_slots[1][2]] \in AssistantNames)
    => (asst_slots[1][1] + 1) \in assistants_data[asst_schedule'[asst_slots[1][1]][asst_slots[1][2]]].holidays

\* C26: when a night shift is filled on a date whose next day is a problem
\* day and some candidate is off on that next day, the worker picked is off
\* on that next day, and among the candidates who are has the least
\* (night-shift count, suitability score).
C26_OffTomorrowTakesTheNight ==
  [][ pharmacist_off_tomorrow_is_picked /\ assistant_off_tomorrow_is_picked ]_vars

\* what the pharmacist passes keep
C26_PharmacistOffTomorrowTakesTheNight == [][ pharmacist_off_tomorrow_is_picked ]_vars

---------------------------------------------------------------------------
(* C27: the selection key *)

\* the key of a candidate for a shift on a date: the count of the group of
\* the shift, then the suitability score
selection_key(candidate, shift_type, date) ==
  << IF is_night_shift(shift_type) THEN candidate.night_count
     ELSE IF startswith(shift_type, "C8") THEN candidate.mixing_count
     ELSE 0,
     _calculate_suitability_score(candidate, weekday(date) >= SATURDAY) >>

\* the pick is for the night before a problem day with a candidate off on it
night_before_problem_day_case ==
  /\ is_night_shift(current_shift)
  /\ (current_date + 1) \in problem_days
  /\ off_on(available, current_date + 1) # {}

\* no candidate has a key below the key of the candidate at the place, and
\* every candidate before the place has a key above it
is_first_of_least_key(candidates, place, shift_type, date) ==
  /\ \A k \in DOMAIN candidates :
       ~key_less(selection_key(candidates[k], shift_type, date),
                 selection_key(candidates[place], shift_type, date))
  /\ \A k \in 1..(place - 1) :
       key_less(selection_key(candidates[place], shift_type, date),
                selection_key(candidates[k], shift_type, date))

\* the name is the name of the first candidate of the least key
picked_by_key(candidates, name, shift_type, date) ==
  /\ \E k \in DOMAIN candidates : candidates[k].name = name
  /\ is_first_of_least_key(candidates, CHOOSE k \in DOMAIN candidates : candidates[k].name = name,
                           shift_type, date)

\* C27: outside the case of the night before a problem day, the pharmacist
\* picked is a candidate whose key (night-shift count, score) for a night
\* shift, (mixing-shift count, score) for a mixing shift, and the score alone
\* for another shift, no candidate is below, and every candidate before it
\* in the shuffled order has a key above it.
C27_PickHasLeastKey ==
  [][ (generate_assign /\ ~night_before_problem_day_case) =>
        picked_by_key(available, schedule_dict'[current_date][current_shift], current_shift,
                      current_date) ]_vars

\* the candidates with the least key
least_key_places ==
  {k \in DOMAIN available :
     \A j \in DOMAIN available :
       ~key_less(selection_key(available[j], current_shift, current_date),
                 selection_key(available[k], current_shift, current_date))}

\* a night shift is being filled outside the special case: two candidates
\* share the least key and another candidate has a higher one
C27_Witness ==
  /\ pc = "shift"
  /\ is_night_shift(current_shift)
  /\ ~night_before_problem_day_case
  /\ Cardinality(least_key_places) >= 2
  /\ \E k \in DOMAIN available : k \notin least_key_places

\* a mixing shift is being filled and a candidate with a lower score than
\* every candidate of the least key has a higher count of mixing shifts
mixing_count_comes_first ==
  /\ pc = "shift"
  /\ startswith(current_shift, "C8")
  /\ \E k \in DOMAIN available : \A j \in least_key_places :
       /\ available[j].mixing_count < available[k].mixing_count
       /\ selection_key(available[k], current_shift, current_date)[2]
            < selection_key(available[j], current_shift, current_date)[2]

\* a night shift is being filled and the candidates differ in their counts
\* of night shifts
night_counts_differ ==
  /\ pc = "shift"
  /\ is_night_shift(current_shift)
  /\ ~night_before_problem_day_case
  /\ \E j, k \in DOMAIN available : available[j].night_count < available[k].night_count

---------------------------------------------------------------------------
(* C28: the suitability score *)

\* the score of section 4.2 of the description, times MultiplierDen, for a
\* worker of the given counters; weighted_rank is the weighted preference
\* rank times MultiplierDen
score_by_formula(consecutive_days_worked, total_hours_assigned, weighted_rank, weekend_shifts_worked, date) ==
  ( W_CONSECUTIVE * (consecutive_days_worked * consecutive_days_worked)
    + W_HOURS * total_hours_assigned
    + (IF weekday(date) \in {SATURDAY, SUNDAY}
       THEN W_WEEKEND_OFF * (weekend_shifts_worked * weekend_shifts_worked)
       ELSE 0) ) * MultiplierDen
  + W_PREFERENCE * weighted_rank

weighted_preference_rank(pharmacist, shift_type) ==
  get_preference_score(pharmacist, shift_type) * preference_multipliers[pharmacist]

\* the cells of Saturdays and Sundays a pharmacist holds in a schedule
weekend_cells_of(pharmacist, schedule) ==
  { cell \in (DOMAIN schedule) \X (DOMAIN shift_types) :
      weekday(cell[1]) >= SATURDAY /\ schedule[cell[1]][cell[2]] = pharmacist }

\* every candidate of the list is scored by the formula, from the counters
\* of the attempt
scored_by_formula(candidates, shift_type, date) ==
  \A k \in 1..Len(candidates) :
    _calculate_suitability_score(candidates[k], weekday(date) >= SATURDAY)
      = score_by_formula(pharmacist_consecutive_days[candidates[k].name],
                         pharmacist_hours[candidates[k].name],
                         weighted_preference_rank(candidates[k].name, shift_type),
                         pharmacist_weekend_work_count[candidates[k].name], date)

\* the score of the negotiator for a pharmacist is the formula, from the
\* schedule the suggestions are made for
negotiator_scores_by_formula(schedule, date, shift_type) ==
  \A p_name \in PharmacistNames :
    negotiation_candidate(p_name, schedule, date, shift_type).score
      = score_by_formula(count_consecutive_shifts(p_name, date, schedule, MAX_DAYS),
                         calculate_total_hours(p_name, schedule),
                         weighted_preference_rank(p_name, shift_type),
                         Cardinality(weekend_cells_of(p_name, schedule)), date)

unfilled_cells_of(schedule) == unfilled_shifts(schedule, sorted(DOMAIN schedule))

all_negotiator_scores_by_formula(schedule, cells) ==
  \A k \in 1..Len(cells) : negotiator_scores_by_formula(schedule, cells[k][1], cells[k][2])

\* C28: wherever a candidate is scored, in a pick of the greedy pass and in
\* the ranking of the negotiator, the suitability score is W_CONSECUTIVE
\* times the square of the consecutive days worked, plus W_HOURS times the
\* hours assigned, plus W_PREFERENCE times the weighted preference rank,
\* plus W_WEEKEND times the square of the weekend shifts worked when and
\* only when the date is a Saturday or a Sunday.
C28_ScoreIsTheFormula ==
  [][ /\ generate_assign => scored_by_formula(available, current_shift, current_date)
      /\ export_to_excel =>
           all_negotiator_scores_by_formula(best_schedule, unfilled_cells_of(best_schedule)) ]_vars

\* C28, the greedy pass only: every candidate of a pick is scored by the
\* formula, and on a weekday the weekend count has no influence
C28_GreedyScoreIsTheFormula ==
  [][ generate_assign => scored_by_formula(available, current_shift, current_date) ]_vars

\* a weekend pick among candidates of different weekend counts
weekend_pick_with_weekend_counts ==
  /\ pc = "shift"
  /\ weekday(current_date) >= SATURDAY
  /\ \E k, l \in 1..Len(available) : available[k].weekend_work_count > available[l].weekend_work_count

---------------------------------------------------------------------------
(* C29: the base preference rank *)

\* the ranks at which a row of the Pharmacists sheet lists a department
ranks_listing(row, department) ==
  {r \in 1..NUM_RANKS : row[r] # NaN /\ row[r] = department}

declares_preferences(row) == \E r \in 1..NUM_RANKS : row[r] # NaN

\* the rank the description gives a worker of the row for the shift
base_rank(row, shift_type) ==
  LET listed == ranks_listing(row, get_department_from_shift(shift_type))
  IN IF ~declares_preferences(row) THEN NEUTRAL_PREFERENCE
     ELSE IF listed # {} THEN CHOOSE r \in listed : \A other \in listed : r <= other
     ELSE UNRANKED_PREFERENCE

call_returned == preference_call # NoCall /\ preference_call.result # NoResult

\* C29: get_preference_score returns the rank 1..8 at which the worker
\* listed the department of the shift, 9 when the worker declared some
\* preferences without listing that department, and 5 when all eight ranks
\* are blank, whatever the shift.
C29_BasePreferenceRank ==
  call_returned =>
    preference_call.result = base_rank(preference_call.Ranks, preference_call.shift_type)

\* C29 for the shifts get_department_from_shift knows a department of
C29_BasePreferenceRankOfKnownDepartment ==
  (call_returned /\ get_department_from_shift(preference_call.shift_type) # None) =>
    preference_call.result = base_rank(preference_call.Ranks, preference_call.shift_type)

\* the three cases of the rule, for a shift with a department
rank_of_listed_department_returned ==
  /\ call_returned
  /\ ranks_listing(preference_call.Ranks, get_department_from_shift(preference_call.shift_type)) # {}
  /\ preference_call.result > 1
unranked_department_returned ==
  /\ call_returned
  /\ get_department_from_shift(preference_call.shift_type) # None
  /\ declares_preferences(preference_call.Ranks)
  /\ preference_call.result = UNRANKED_PREFERENCE
neutral_value_returned ==
  /\ call_returned
  /\ ~declares_preferences(preference_call.Ranks)
  /\ preference_call.result = NEUTRAL_PREFERENCE

---------------------------------------------------------------------------
(* C30: the historical fairness multiplier *)

multipliers_set == multipliers_call # NoCall /\ multipliers_call.preference_multipliers # NoMultipliers

\* comparisons of the multipliers, which are pairs <<numerator, denominator>>
\* of a positive denominator
at_least(m, tenths) == MULTIPLIER_TENTHS * m[1] >= tenths * m[2]
at_most(m, tenths) == MULTIPLIER_TENTHS * m[1] <= tenths * m[2]
is_tenths(m, tenths) == MULTIPLIER_TENTHS * m[1] = tenths * m[2]
closer_to_one(m1, m2) == m1[1] * m2[2] > m2[1] * m1[2]

multipliers_in_range(multipliers) ==
  \A p \in PharmacistNames :
    at_least(multipliers[p], MULTIPLIER_FLOOR_TENTHS) /\ at_most(multipliers[p], MULTIPLIER_TENTHS)

all_are_one(multipliers) == \A p \in PharmacistNames : is_tenths(multipliers[p], MULTIPLIER_TENTHS)

\* the direction the description gives: the lower the historical score the
\* closer to 1.0, and the floor for the best score
lower_score_is_closer_to_one(scores, multipliers) ==
  /\ \A p, q \in DOMAIN scores :
       scores[p] < scores[q] => closer_to_one(multipliers[p], multipliers[q])
  /\ \A p \in DOMAIN scores :
       scores[p] = max_of(scores) => is_tenths(multipliers[p], MULTIPLIER_FLOOR_TENTHS)

\* the direction of the normalisation: the higher the historical score the
\* closer to 1.0, the floor for the least score and for the pharmacists the
\* sheet does not name, 1.0 for the highest
higher_score_is_closer_to_one(scores, multipliers) ==
  /\ \A p, q \in DOMAIN scores :
       scores[p] < scores[q] => closer_to_one(multipliers[q], multipliers[p])
  /\ \A p \in DOMAIN scores :
       /\ scores[p] = min_of(scores) => is_tenths(multipliers[p], MULTIPLIER_FLOOR_TENTHS)
       /\ scores[p] = max_of(scores) => is_tenths(multipliers[p], MULTIPLIER_TENTHS)
  /\ \A p \in PharmacistNames \ DOMAIN scores : is_tenths(multipliers[p], MULTIPLIER_FLOOR_TENTHS)

\* C30: every multiplier lies between 0.7 and 1.0; all are 1.0 when there
\* is no historical data; and with historical data a worker of a lower
\* historical score has a multiplier closer to 1.0 and the worker of the
\* best score has the floor 0.7.
C30_FairnessMultiplier ==
  multipliers_set =>
    /\ multipliers_in_range(multipliers_call.preference_multipliers)
    /\ DOMAIN multipliers_call.historical_scores = {}
         => all_are_one(multipliers_call.preference_multipliers)
    /\ DOMAIN multipliers_call.historical_scores # {}
         => lower_score_is_closer_to_one(multipliers_call.historical_scores,
                                         multipliers_call.preference_multipliers)

\* C30 as the normalisation computes it: the range, 1.0 for everybody
\* without historical data or when all the scores are the same, and
\* otherwise 0.7 + 0.3 * (score - min) / (max - min)
C30_MultiplierRisesWithScore ==
  multipliers_set =>
    /\ multipliers_in_range(multipliers_call.preference_multipliers)
    /\ all_multipliers_are_one(multipliers_call.historical_scores)
         => all_are_one(multipliers_call.preference_multipliers)
    /\ ~all_multipliers_are_one(multipliers_call.historical_scores)
         => higher_score_is_closer_to_one(multipliers_call.historical_scores,
                                          multipliers_call.preference_multipliers)

\* three different scores were normalised
three_scores_normalised ==
  /\ multipliers_set
  /\ Cardinality(Range0(multipliers_call.historical_scores)) = Cardinality(ScoredNames)
\* no historical data
no_historical_data_read == multipliers_set /\ DOMAIN multipliers_call.historical_scores = {}

---------------------------------------------------------------------------
(* C31: the counters at the start of an attempt *)

\* the counters of the pharmacists once the attempt has begun, before the
\* pre-assignments are applied
pharmacist_counters_zeroed ==
  /\ pharmacists' = zero_run_state
  /\ pharmacist_hours' = zero_counts
  /\ pharmacist_consecutive_days' = zero_counts
  /\ pharmacist_weekend_work_count' = zero_counts

\* the counters of the assistants after _recalculate_counts(pd.DataFrame())
assistant_counters_at_start == _recalculate_counts(EmptyDataFrame)

assistant_counters_zeroed ==
  \A name \in AssistantNames :
    /\ assistant_counters_at_start[name].total_hours = 0
    /\ assistant_counters_at_start[name].night_shift_count = 0
    /\ assistant_counters_at_start[name].weekend_work_count = 0
    /\ \A dept \in DepartmentNames : assistant_counters_at_start[name].department_counts[dept] = 0

\* the same counters are the values carried over in the Prev_ columns of
\* the Assistants sheet, whatever the schedule of the attempt before holds
assistant_counters_are_initial ==
  \A name \in AssistantNames :
    /\ assistant_counters_at_start[name].total_hours = prev_count(AssistantsSheet[name].PrevHours)
    /\ assistant_counters_at_start[name].night_shift_count
         = prev_count(AssistantsSheet[name].PrevNightShifts)
    /\ assistant_counters_at_start[name].weekend_work_count = 0
    /\ \A dept \in DepartmentNames : assistant_counters_at_start[name].department_counts[dept] = 0

assistant_later_attempt_begins ==
  /\ asst_pc = "attempt"
  /\ asst_attempt >= 1
  /\ asst_attempt < max_attempts
  /\ \E name \in AssistantNames : assistant_cells(asst_schedule, name) # {}

---------------------------------------------------------------------------
(* C32: the dates a shift is offered on *)

MONDAY == 0
THURSDAY == 3

\* what the category of a shift prescribes for a date of the given day of
\* the week
prescribed(shift_category, date_weekday, is_holiday_date) ==
  CASE shift_category = "weekday" -> date_weekday \in MONDAY..FRIDAY /\ ~is_holiday_date
    [] shift_category = MON_THU -> date_weekday \in MONDAY..THURSDAY /\ ~is_holiday_date
    [] shift_category = "saturday" -> date_weekday = SATURDAY /\ ~is_holiday_date
    [] shift_category = "holiday" -> is_holiday_date \/ date_weekday \in {SATURDAY, SUNDAY}
    [] shift_category = "night" -> TRUE

\* C32: is_shift_available_on_date of either scheduler offers a shift on a
\* date exactly as its category prescribes: weekday on Monday to Friday
\* that are no holidays, Mon-Thu on Monday to Thursday that are no
\* holidays, saturday on Saturdays that are no holidays, holiday on public
\* holidays, Saturdays and Sundays, night on every date.
C32_OfferedAsCategoryPrescribes ==
  (availability_call # NoCall /\ availability_call.returned) =>
    (availability_call.result
       <=> prescribed(availability_call.shift_category, availability_call.weekday,
                      availability_call.is_holiday))

\* a holiday-category shift was offered on a Sunday that is no public holiday
C32_Witness ==
  /\ availability_call # NoCall
  /\ availability_call.returned
  /\ availability_call.shift_category = "holiday"
  /\ availability_call.weekday = SUNDAY
  /\ ~availability_call.is_holiday
  /\ availability_call.result

\* a weekday shift was refused on a Monday that is a public holiday
weekday_shift_refused_on_holiday ==
  /\ availability_call # NoCall
  /\ availability_call.returned
  /\ availability_call.shift_category = "weekday"
  /\ availability_call.weekday = MONDAY
  /\ availability_call.is_holiday
  /\ ~availability_call.result

---------------------------------------------------------------------------
(* C33: the tie-break between schedules with the same unfilled count *)

\* is_schedule_better has answered for two schedules whose unfilled
\* problem-day counts are the same
tie_on_unfilled_count ==
  /\ comparison_call # NoCall
  /\ comparison_call.returned
  /\ comparison_call.current_metrics.unfilled_problem_shifts
       = comparison_call.best_metrics.unfilled_problem_shifts

\* the weight a metric carries in the weighted sum: none when the sum does
\* not read it
weight_of(metric) == IF metric \in DOMAIN weights THEN weights[metric] ELSE 0

\* the weighted sum over weights, times VarDen
weighted_sum(metrics) ==
  weight_of("preference_score") * metrics.preference_score * VarDen
  + weight_of("night_variance") * metrics.night_variance
  + weight_of("weekend_off_variance") * metrics.weekend_off_variance

\* weekend-off variance, night variance and preference penalty carry a
\* weight in the sum, in this order of weight
other_weights_in_order ==
  /\ weight_of("weekend_off_variance") > weight_of("night_variance")
  /\ weight_of("night_variance") > weight_of("preference_score")
  /\ weight_of("preference_score") > 0

\* C33 as stated: on a tie of the unfilled problem-day count the current
\* schedule is better exactly when its weighted sum of the remaining metrics
\* is smaller, and in that sum hour imbalance carries the heaviest weight,
\* then weekend-off variance, then night variance, then preference penalty.
C33_TieBrokenByWeightedSum ==
  tie_on_unfilled_count =>
    /\ weight_of("hour_imbalance_penalty") > weight_of("weekend_off_variance")
    /\ other_weights_in_order
    /\ comparison_call.result
         = (weighted_sum(comparison_call.current_metrics) < weighted_sum(comparison_call.best_metrics))

\* the current schedule wins the tie: its hour imbalance is smaller, or the
\* same with a smaller weighted sum of the other three metrics
wins_tie(current, best) ==
  \/ current.hour_imbalance_penalty < best.hour_imbalance_penalty
  \/ /\ current.hour_imbalance_penalty = best.hour_imbalance_penalty
     /\ weighted_sum(current) < weighted_sum(best)

\* C33, amended: on a tie of the unfilled problem-day count the smaller hour
\* imbalance wins outright, whatever the other metrics are; hour imbalance
\* is not a term of the weighted sum. Only when the hour imbalance is the
\* same too does the weighted sum decide, and in it weekend-off variance
\* carries the heaviest weight, then night variance, then preference penalty.
C33_TieBrokenByHoursThenWeightedSum ==
  tie_on_unfilled_count =>
    /\ "hour_imbalance_penalty" \notin DOMAIN weights
    /\ other_weights_in_order
    /\ comparison_call.result = wins_tie(comparison_call.current_metrics, comparison_call.best_metrics)

\* a tie on the unfilled count won by the smaller hour imbalance against a
\* larger weekend-off variance, night variance and preference penalty
C33_Witness ==
  /\ tie_on_unfilled_count
  /\ comparison_call.result
  /\ comparison_call.current_metrics.hour_imbalance_penalty < comparison_call.best_metrics.hour_imbalance_penalty
  /\ comparison_call.current_metrics.weekend_off_variance > comparison_call.best_metrics.weekend_off_variance
  /\ comparison_call.current_metrics.night_variance > comparison_call.best_metrics.night_variance
  /\ comparison_call.current_metrics.preference_score > comparison_call.best_metrics.preference_score

\* a tie on the unfilled count and the hour imbalance won by the smaller
\* weekend-off variance against a larger night variance and preference
\* penalty
weekend_off_variance_outweighs ==
  /\ tie_on_unfilled_count
  /\ comparison_call.result
  /\ comparison_call.current_metrics.hour_imbalance_penalty = comparison_call.best_metrics.hour_imbalance_penalty
  /\ comparison_call.current_metrics.weekend_off_variance < comparison_call.best_metrics.weekend_off_variance
  /\ comparison_call.current_metrics.night_variance > comparison_call.best_metrics.night_variance
  /\ comparison_call.current_metrics.preference_score > comparison_call.best_metrics.preference_score

---------------------------------------------------------------------------
(* C34: restricted sequences in the final schedule *)

\* the pharmacist holds a shift on the date and, on the next date, a shift
\* that the first one's restricted_next_shifts names
holds_restricted_sequence(schedule, pharmacist, date) ==
  \E held \in held_shifts(schedule, pharmacist, date) :
    \E next_held \in held_shifts(schedule, pharmacist, date + 1) :
      Contains(shift_types[held].restricted_next_shifts, next_held)

\* every cell of the schedule that holds a pharmacist was filled by a greedy
\* pick: the PreAssignments sheet is empty
built_by_greedy_picks == pre_assignments = <<>>

\* C34: in every final schedule built by greedy picks alone, whatever order
\* the dates were processed in, no pharmacist holds a shift S on a date D
\* together with, on date D+1, a shift listed in S's restricted_next_shifts.
C34_NoRestrictedSequenceInFinalSchedule ==
  (final_schedule /\ built_by_greedy_picks) =>
    \A pharmacist \in PharmacistNames : \A date \in DOMAIN schedule_dict :
      ~holds_restricted_sequence(schedule_dict, pharmacist, date)

---------------------------------------------------------------------------
(* C35: the consecutive-days value of the suitability score *)

\* the number of days immediately before the date, counted backwards from
\* the day before without a gap, on which the pharmacist holds a shift
run_of_days_before(pharmacist, date, schedule) ==
  count_consecutive_shifts(pharmacist, date, schedule, Cardinality(DOMAIN schedule))

\* C35: while a date D is processed, the consecutive-days value of every
\* pharmacist that the suitability score reads is the number of calendar
\* days immediately before D, counted backwards from D-1 without a gap, on
\* which the pharmacist holds a shift in the current partial schedule,
\* whatever order the dates are processed in.
C35_ConsecutiveDaysIsTheRunBefore ==
  pc = "shift" =>
    \A pharmacist \in PharmacistNames :
      pharmacist_consecutive_days[pharmacist]
        = run_of_days_before(pharmacist, current_date, schedule_dict)

---------------------------------------------------------------------------
(* C36: a cell that holds a worker is decided *)

\* every cell that holds one of the names before holds the same name after
worker_cells_kept(before, after, names) ==
  \A date \in DOMAIN before : \A shift_type \in DOMAIN before[date] :
    before[date][shift_type] \in names => after[date][shift_type] = before[date][shift_type]

\* the k-th row of the PreAssignments sheet is one the loop writes into the
\* schedule
pharmacist_row_is_written(k) ==
  /\ pre_assignments[k][1] \in PharmacistNames
  /\ pre_assignments[k][2] \in Dates
  /\ pre_assignments[k][3] \in ShiftCodeSet
assistant_row_is_written(k) ==
  /\ asst_pre_assignments[k][1] \in AssistantNames
  /\ asst_pre_assignments[k][2] \in AssistantDates
  /\ asst_pre_assignments[k][3] \in AssistantShiftCodeSet

\* no row after the k-th names the same cell
last_row_of_its_cell(rows, k) ==
  \A later \in (k + 1)..Len(rows) : <<rows[later][2], rows[later][3]>> # <<rows[k][2], rows[k][3]>>

\* a step of an attempt of either scheduler, from its empty schedule to the
\* schedule it returns
pharmacist_attempt_step == pc \in {"pre", "date", "shift"}
assistant_attempt_step == asst_pc \in {"problematic", "normal", "fallback"}

\* the greedy pass of either scheduler leaves the cells that hold a worker
\* as they are
filled_cells_are_skipped ==
  /\ pharmacist_attempt_step => worker_cells_kept(schedule_dict, schedule_dict', PharmacistNames)
  /\ assistant_attempt_step => worker_cells_kept(asst_schedule, asst_schedule', AssistantNames)

assistant_pick_beside_pre_assignment ==
  /\ asst_pc = "returned"
  /\ \E k \in 1..Len(asst_pre_assignments) :
       /\ assistant_row_is_written(k)
       /\ assistant_is_shift_available_on_date(asst_pre_assignments[k][3], asst_pre_assignments[k][2])
       /\ asst_schedule[asst_pre_assignments[k][2]][asst_pre_assignments[k][3]] = asst_pre_assignments[k][1]
       /\ \E picked \in AssistantShiftCodeSet :
            /\ ~assistant_cell_is_pre_assigned(asst_schedule[asst_pre_assignments[k][2]][picked],
                                               asst_pre_assignments[k][2], picked)
            /\ asst_schedule[asst_pre_assignments[k][2]][picked] \in AssistantNames

\* a schedule is returned in which a pre-assigned cell holds the pharmacist
\* of a later row for the same cell
later_row_replaced_pre_assignment ==
  /\ pc = "returned"
  /\ \E k \in 1..Len(pre_assignments) :
       /\ pharmacist_row_is_written(k)
       /\ ~last_row_of_its_cell(pre_assignments, k)
       /\ schedule_dict[pre_assignments[k][2]][pre_assignments[k][3]] # pre_assignments[k][1]

---------------------------------------------------------------------------
(* C37: AssistantScheduler.generate_schedule terminates *)

\* the slot is offered on its date and holds no assistant
left_unfilled(schedule, date, shift_type) ==
  /\ assistant_is_shift_available_on_date(shift_type, date)
  /\ schedule[date][shift_type] \notin AssistantNames

\* every slot offered holds an assistant or the mark UNFILLED
unfillable_slots_are_marked(schedule) ==
  \A date \in AssistantDates : \A shift_type \in AssistantShiftCodeSet :
    left_unfilled(schedule, date, shift_type) => schedule[date][shift_type] = UNFILLED

\* what generate_schedule does from one step to the next: the attempts are
\* counted by the failures, an attempt is returned only with every slot of
\* the non-problem days filled, and the fallback only after max_attempts
\* failures, with the slots nobody could take marked UNFILLED
generate_schedule_steps ==
  /\ asst_attempt' # asst_attempt =>
       \/ asst_pc = "iteration" /\ asst_attempt' = 0
       \/ /\ asst_pc = "normal" /\ asst_pc' = "attempt"
          /\ asst_attempt' = asst_attempt + 1
          /\ asst_attempt' <= max_attempts
          /\ \E date \in AssistantDates \ asst_problematic_dates : \E shift_type \in AssistantShiftCodeSet :
               left_unfilled(asst_schedule', date, shift_type)
  /\ (asst_pc = "normal" /\ asst_pc' = "returned") =>
       /\ asst_attempt < max_attempts
       /\ asst_schedule' = asst_schedule
       /\ \A date \in AssistantDates \ asst_problematic_dates : \A shift_type \in AssistantShiftCodeSet :
            ~left_unfilled(asst_schedule, date, shift_type)
  /\ (asst_pc = "attempt" /\ asst_pc' = "fallback") => asst_attempt = max_attempts
  /\ (asst_pc = "fallback" /\ asst_pc' = "returned") =>
       /\ asst_schedule' = asst_schedule
       /\ unfillable_slots_are_marked(asst_schedule)

\* C37: AssistantScheduler.generate_schedule always terminates and returns a
\* schedule. It makes at most max_attempts attempts (250 in the source), one
\* more after each attempt that left a slot of a non-problem day unfilled;
\* it returns the first attempt in which no slot of a non-problem day is
\* left unfilled, and after max_attempts failed attempts the schedule of
\* _final_fallback_generation, in which every slot nobody could take is
\* marked UNFILLED.
C37_GenerateScheduleTerminates ==
  /\ [][generate_schedule_steps]_vars
  /\ (asst_pc = "attempt") ~> (asst_pc = "returned")

\* generate_schedule returns an attempt made after a failed one
C37_Witness ==
  /\ asst_pc = "returned"
  /\ asst_attempt > 0
  /\ asst_attempt < max_attempts
  /\ \A date \in AssistantDates \ asst_problematic_dates : \A shift_type \in AssistantShiftCodeSet :
       ~left_unfilled(asst_schedule, date, shift_type)

\* generate_schedule returns the fallback schedule with a slot marked
\* UNFILLED
fallback_schedule_returned ==
  /\ asst_pc = "returned"
  /\ asst_attempt = max_attempts
  /\ \E date \in AssistantDates : \E shift_type \in AssistantShiftCodeSet :
       asst_schedule[date][shift_type] = UNFILLED

---------------------------------------------------------------------------
(* C38: the running counters agree with the partial schedule *)

\* the cells of the schedule the pharmacist holds
cells_held(schedule, pharmacist) ==
  {cell \in (DOMAIN schedule) \X ShiftCodeSet : schedule[cell[1]][cell[2]] = pharmacist}

\* the running counters of the pharmacist are those of the cells held
counters_agree(pharmacist) ==
  LET held == cells_held(schedule_dict, pharmacist)
  IN /\ pharmacist_hours[pharmacist] = SumOver([cell \in held |-> shift_types[cell[2]].hours], held)
     /\ pharmacists[pharmacist].night_shift_count
          = Cardinality({cell \in held : is_night_shift(cell[2])})
     /\ pharmacists[pharmacist].mixing_shift_count
          = Cardinality({cell \in held : startswith(cell[2], "C8")})

\* C38: after any sequence of pre-assignments and greedy picks within one
\* PharmacistScheduler attempt, the running counters of every pharmacist
\* agree with the partial schedule: the running hours are the sum of the
\* hours of the cells held, night_shift_count is the number of night-shift
\* cells held and mixing_shift_count the number of C8-prefixed cells held.
C38_CountersAgreeWithSchedule ==
  pc \in {"date", "shift"} => \A pharmacist \in PharmacistNames : counters_agree(pharmacist)

---------------------------------------------------------------------------
(* C39: the eligibility engine is read-only *)

\* the step is a call of the eligibility engine of either scheduler
engine_is_called == engine_calls # NoCall /\ engine_calls' # engine_calls

\* the partial schedule and the run-state counters of both schedulers (the
\* counters of the assistants are those _recalculate_counts keeps for the
\* schedule)
scheduling_state ==
  << schedule_dict, pharmacists, pharmacist_hours, pharmacist_consecutive_days,
     pharmacist_weekend_work_count, asst_schedule >>

\* C39: a call of the eligibility engine for a (date, shift) changes neither
\* the partial schedule nor any run-state counter of a worker, however many
\* calls are made between two assignments; asked again for the same cell
\* the engine of PharmacistScheduler gives the same answer.
C39_EngineIsReadOnly ==
  [][ engine_is_called =>
        /\ UNCHANGED scheduling_state
        /\ pc = "shift" => names_of(available)' = engine_calls'.available ]_vars

\* the engine of PharmacistScheduler was called more than once for a cell of
\* a schedule that holds pharmacists, and found somebody
C39_Witness ==
  /\ pc = "shift"
  /\ engine_calls # NoCall
  /\ engine_calls.made > 1
  /\ Len(engine_calls.available) > 0
  /\ \E pharmacist \in PharmacistNames : pharmacist_hours[pharmacist] > 0

\* the same for the engine of AssistantScheduler
assistant_engine_called_twice ==
  /\ asst_pc \in {"problematic", "normal", "fallback"}
  /\ engine_calls # NoCall
  /\ engine_calls.made > 1
  /\ Len(engine_calls.available) > 0
  /\ \E date \in AssistantDates : \E shift_type \in AssistantShiftCodeSet :
       asst_schedule[date][shift_type] \in AssistantNames

---------------------------------------------------------------------------
(* C40: check_time_overlap *)

\* the minute of the day a time names
minute_of_day(time_input) == time_input[1] * MINUTES_PER_HOUR + time_input[2]

\* the minute at which a shift ends, counted from the midnight before its
\* start: an end time earlier than the start time is 24 hours later
end_minute(start, end) ==
  IF minute_of_day(end) < minute_of_day(start)
  THEN minute_of_day(end) + HOURS_PER_DAY * MINUTES_PER_HOUR
  ELSE minute_of_day(end)

\* each of the two intervals starts strictly before the other ends
each_starts_before_the_other_ends(start1, end1, start2, end2) ==
  /\ minute_of_day(start1) < end_minute(start2, end2)
  /\ minute_of_day(start2) < end_minute(start1, end1)

\* C40: check_time_overlap of either scheduler treats a shift whose end time
\* is earlier than its start time as ending 24 hours later, reports an
\* overlap exactly when each interval starts strictly before the other ends,
\* and gives the same answer when its two shifts are swapped.
C40_OverlapTest ==
  (overlap_call # NoCall /\ overlap_call.returned) =>
    /\ overlap_call.result
         = each_starts_before_the_other_ends(overlap_call.start1, overlap_call.end1,
                                             overlap_call.start2, overlap_call.end2)
    /\ overlap_call.result
         = overlap_answer(overlap_call.scheduler, overlap_call.start2, overlap_call.end2,
                          overlap_call.start1, overlap_call.end1)

\* an overlap is reported between a shift that ends after midnight and a
\* shift that starts, on the clock, after the first one's end time
C40_Witness ==
  /\ overlap_call # NoCall
  /\ overlap_call.returned
  /\ overlap_call.result
  /\ minute_of_day(overlap_call.end1) < minute_of_day(overlap_call.start1)
  /\ minute_of_day(overlap_call.start2) > minute_of_day(overlap_call.end1)
  /\ minute_of_day(overlap_call.end2) > minute_of_day(overlap_call.start2)

\* no overlap is reported between two shifts of which one starts at the
\* minute the other ends
touching_shifts_do_not_overlap ==
  /\ overlap_call # NoCall
  /\ overlap_call.returned
  /\ ~overlap_call.result
  /\ overlap_call.end1 = overlap_call.start2
  /\ minute_of_day(overlap_call.start1) < minute_of_day(overlap_call.end1)
  /\ minute_of_day(overlap_call.start2) < minute_of_day(overlap_call.end2)

====
